---- MODULE Spec2Model ----
(***************************************************************************)
(* Notification endpoints of influxdb: the variant model (Slack, HTTP),    *)
(* the secret indirection (SecretField key/value), the JSON codec, the     *)
(* update protocol (full replace, change-set), the HTTP handlers of        *)
(* http/notification_endpoint.go and the HTTP client in the same file.     *)
(*                                                                         *)
(* Identifiers are numbers: 0 is the zero influxdb.ID, whose String() is   *)
(* "", 1..MaxID are the identifiers the generator hands out.  Timestamps   *)
(* are numbers: 0 is time.Time{}.  A nil *string is the value Nil.         *)
(* A JSON object is a function from field names to values; a field that    *)
(* is absent from the object is absent from the function's domain.         *)
(***************************************************************************)
EXTENDS Integers, Sequences, FiniteSets, TLC

\* Bounds of the model.
MaxID == 2
MaxTime == 3

Nil == "<nil>"
SlackType == "slack"
HTTPType == "http"
KnownTypes == {SlackType, HTTPType}
Active == "active"
Inactive == "inactive"

EInvalid == "invalid"
ENotFound == "not found"
EInternal == "internal error"

IDs == 1 .. MaxID
IDNames == <<"01", "02", "03", "04", "05">>

\* influxdb.ID.String: the zero ID encodes to the empty string.
IDString(i) == IF i \in 1 .. Len(IDNames) THEN IDNames[i] ELSE ""

\* influxdb.IDFromString / ID.DecodeFromString on a path parameter: the
\* empty string is no identifier.
IDFromString(i) == IF i = 0 THEN [err |-> EInvalid, id |-> 0] ELSE [err |-> "", id |-> i]

Range(s) == {s[i] : i \in DOMAIN s}

Get(j, f, d) == IF f \in DOMAIN j THEN j[f] ELSE d

NoEndpoint == [Type |-> "none"]
IsEndpoint(e) == e.Type \in KnownTypes

----------------------------------------------------------------------------
(* Variant model and secret indirection *)

\* The secret fields of a variant, in declaration order.
SecretNames(t) ==
    IF t = SlackType THEN <<"token">>
    ELSE IF t = HTTPType THEN <<"username", "password">>
    ELSE <<>>

\* slackTokenSuffix and its siblings.
Suffix(f) ==
    CASE f = "token" -> "-token"
      [] f = "username" -> "-username"
      [] f = "password" -> "-password"
      [] OTHER -> "-routing-key"

NoSecret == [Key |-> "", Value |-> Nil]

BackfillOverwrites(e) ==
    [e EXCEPT !.Secrets = [f \in DOMAIN e.Secrets |->
        IF e.Secrets[f].Value # Nil
        THEN [e.Secrets[f] EXCEPT !.Key = IDString(e.ID) \o Suffix(f)]
        ELSE e.Secrets[f]]]

\* Slack.BackfillSecretKeys
BackfillSecretKeys(e) ==
    [e EXCEPT !.Secrets = [f \in DOMAIN e.Secrets |->
        IF e.Secrets[f].Key = "" /\ e.Secrets[f].Value # Nil
        THEN [e.Secrets[f] EXCEPT !.Key = IDString(e.ID) \o Suffix(f)]
        ELSE e.Secrets[f]]]

SecretFieldsWithValue(e) ==
    LET names == SelectSeq(SecretNames(e.Type), LAMBDA f : e.Secrets[f].Value # Nil)
    IN  [i \in 1 .. Len(names) |-> e.Secrets[names[i]]]

\* Slack.SecretFields
SecretFields(e) ==
    LET names == SelectSeq(SecretNames(e.Type), LAMBDA f : e.Secrets[f].Key # "")
    IN  [i \in 1 .. Len(names) |-> e.Secrets[names[i]]]

\* url.Parse: the URLs of the model that do not parse.
BadURLs == {"%zz"}
URLParses(u) == u \notin BadURLs

\* influxdb.Status.Valid
StatusValid(s) == s \in {Active, Inactive}

\* influxdb.EndpointBase.Valid
BaseValid(e) == e.Name # "" /\ StatusValid(e.Status)

ValidSkipsURLParse(e) == BaseValid(e) /\ e.URL # ""

\* Slack.Valid
Valid(e) == BaseValid(e) /\ e.URL # "" /\ URLParses(e.URL)

----------------------------------------------------------------------------
(* Codec *)

SecretPrefix == "secret: "

\* influxdb.SecretField.String / MarshalJSON
SecretFieldString(sf) == IF sf.Key = "" THEN "" ELSE SecretPrefix \o sf.Key

\* influxdb.SecretField.UnmarshalJSON: the wire value is the field's value;
\* no key is taken from the wire.
UnmarshalSecretField(ss) ==
    IF ss = "" THEN NoSecret ELSE [Key |-> "", Value |-> ss]

MarshalPlaintext(e) ==
    [id |-> e.ID, orgID |-> e.OrgID, name |-> e.Name, description |-> e.Description,
     status |-> e.Status, createdAt |-> e.CreatedAt, updatedAt |-> e.UpdatedAt,
     url |-> e.URL, type |-> e.Type]
        @@ [f \in DOMAIN e.Secrets |->
                IF e.Secrets[f].Value # Nil THEN e.Secrets[f].Value ELSE ""]

\* Slack.MarshalJSON: the alias struct's fields plus the type discriminator.
MarshalJSON(e) ==
    [id |-> e.ID, orgID |-> e.OrgID, name |-> e.Name, description |-> e.Description,
     status |-> e.Status, createdAt |-> e.CreatedAt, updatedAt |-> e.UpdatedAt,
     url |-> e.URL, type |-> e.Type]
        @@ [f \in DOMAIN e.Secrets |-> SecretFieldString(e.Secrets[f])]

\* endpoint.UnmarshalJSON: the discriminator first, then every other field
\* into a zero value of the variant.
UnmarshalJSON(b) ==
    LET t == Get(b, "type", "")
    IN  IF t \notin KnownTypes
        THEN [err |-> EInvalid, edp |-> NoEndpoint]
        ELSE [err |-> "",
              edp |-> [Type |-> t,
                       ID |-> Get(b, "id", 0),
                       OrgID |-> Get(b, "orgID", 0),
                       Name |-> Get(b, "name", ""),
                       Description |-> Get(b, "description", ""),
                       Status |-> Get(b, "status", ""),
                       CreatedAt |-> Get(b, "createdAt", 0),
                       UpdatedAt |-> Get(b, "updatedAt", 0),
                       URL |-> Get(b, "url", ""),
                       Secrets |-> [f \in Range(SecretNames(t)) |->
                                       UnmarshalSecretField(Get(b, f, ""))]]]

\* fieldMap of notificationEndpointEncoder.MarshalJSON; a Go map answers a
\* missing key with the zero value "".
FieldMap(k) ==
    CASE k = "-password" -> "password"
      [] k = "-routing-key" -> "routingKey"
      [] k = "-token" -> "token"
      [] k = "-username" -> "username"
      [] OTHER -> ""

RECURSIVE WriteSecrets(_, _, _)
\* The loop over SecretFields() in notificationEndpointEncoder.MarshalJSON.
WriteSecrets(ughhh, secs, i) ==
    IF i > Len(secs) THEN ughhh
    ELSE LET v == IF secs[i].Value # Nil THEN secs[i].Value ELSE ""
         IN  WriteSecrets((FieldMap(secs[i].Key) :> v) @@ ughhh, secs, i + 1)

\* notificationEndpointEncoder.MarshalJSON: the body, and the endpoint as
\* the call leaves it (BackfillSecretKeys works on the caller's object).
EncoderMarshalJSON(ne) ==
    LET ughhh == MarshalJSON(ne)
        filled == BackfillSecretKeys(ne)
    IN  [json |-> WriteSecrets(ughhh, SecretFields(filled), 1), ne |-> filled]

\* notificationEndpointDecoder.UnmarshalJSON
DecoderUnmarshalJSON(b) == UnmarshalJSON(b)

----------------------------------------------------------------------------
(* Update protocol: influxdb.EndpointUpdate and its two constructors *)

NoUpdate == [Name |-> Nil, Description |-> Nil, Status |-> Nil]

\* endpoints.UpdateEndpoint: full replace by the caller's endpoint.
UpdateEndpoint(edp) ==
    [UpdateType |-> "endpoint", ID |-> edp.ID, edp |-> edp, upd |-> NoUpdate]

\* endpoints.UpdateChangeSet: the fields of the change-set that are present.
UpdateChangeSet(id, upd) ==
    [UpdateType |-> "change_set", ID |-> id, edp |-> NoEndpoint, upd |-> upd]

\* EndpointUpdate.Fn(now, current)
Fn(update, t, current) ==
    IF update.UpdateType = "endpoint"
    THEN [update.edp EXCEPT !.CreatedAt = current.CreatedAt, !.UpdatedAt = t]
    ELSE [current EXCEPT
            !.Name = IF update.upd.Name # Nil THEN update.upd.Name ELSE @,
            !.Description = IF update.upd.Description # Nil
                            THEN update.upd.Description ELSE @,
            !.Status = IF update.upd.Status # Nil THEN update.upd.Status ELSE @,
            !.UpdatedAt = t]

\* influxdb.NotificationEndpointUpdate.Valid
UpdateValid(upd) == upd.Status # Nil => StatusValid(upd.Status)

----------------------------------------------------------------------------
(* The collaborators behind the handlers: the endpoint service with its    *)
(* store, and the label service.  S is the server's state:                 *)
(* [store, mappings, nextID, now, fault]; fault names the collaborator     *)
(* that answers every call of this request with an internal error.         *)

NoFault == "none"
Faults == {NoFault, "endpoints", "labels"}

\* What persistence keeps of an endpoint: a secret's key, never its value.
Stored(e) ==
    [e EXCEPT !.Secrets = [f \in DOMAIN e.Secrets |->
                              [Key |-> e.Secrets[f].Key, Value |-> Nil]]]

Exists(S, id) == id \in DOMAIN S.store /\ IsEndpoint(S.store[id])

\* NotificationEndpointService.Create of the server
SvcCreate(S, edp) ==
    LET e1 == [edp EXCEPT !.ID = S.nextID,
                          !.Status = IF @ = "" THEN Active ELSE @,
                          !.CreatedAt = S.now, !.UpdatedAt = S.now]
        e2 == BackfillSecretKeys(e1)
    IN  IF S.fault = "endpoints" THEN [err |-> EInternal, edp |-> edp, S |-> S]
        ELSE IF ~Valid(e2)
        THEN [err |-> EInvalid, edp |-> e2, S |-> S]
        ELSE [err |-> "", edp |-> e2,
              S |-> [S EXCEPT !.store[S.nextID] = Stored(e2),
                              !.nextID = @ + 1, !.now = @ + 1]]

\* NotificationEndpointService.FindByID of the server
SvcFindByID(S, id) ==
    IF S.fault = "endpoints" THEN [err |-> EInternal, edp |-> NoEndpoint]
    ELSE IF Exists(S, id) THEN [err |-> "", edp |-> S.store[id]]
    ELSE [err |-> ENotFound, edp |-> NoEndpoint]

\* NotificationEndpointService.Update of the server: load, apply the
\* mutator, validate, backfill, persist.
SvcUpdate(S, update) ==
    IF S.fault = "endpoints" THEN [err |-> EInternal, edp |-> NoEndpoint, S |-> S]
    ELSE IF ~Exists(S, update.ID)
    THEN [err |-> ENotFound, edp |-> NoEndpoint, S |-> S]
    ELSE LET new == Fn(update, S.now, S.store[update.ID])
             e2 == BackfillSecretKeys(new)
         IN  IF ~Valid(new)
             THEN [err |-> EInvalid, edp |-> NoEndpoint, S |-> S]
             ELSE [err |-> "", edp |-> e2,
                   S |-> [S EXCEPT !.store[e2.ID] = Stored(e2), !.now = @ + 1]]

\* NotificationEndpointService.Delete of the server
SvcDelete(S, id) ==
    IF S.fault = "endpoints" THEN [err |-> EInternal, S |-> S]
    ELSE IF ~Exists(S, id) THEN [err |-> ENotFound, S |-> S]
    ELSE [err |-> "", S |-> [S EXCEPT !.store[id] = NoEndpoint]]

\* The labels the label service knows, in a fixed order.
LabelOrder == <<"l1", "l2", "l3">>
Labels == Range(LabelOrder)

\* The labels for which LabelService.CreateLabelMapping answers an error.
UnmappableLabels == {"l3"}
NotificationEndpointResourceType == "notificationEndpoint"

\* LabelService.FindResourceLabels with LabelMappingFilter{ResourceID: id}
FindResourceLabels(S, id) ==
    IF S.fault = "labels" THEN <<>>
    ELSE SelectSeq(LabelOrder,
                   LAMBDA l : \E m \in S.mappings : m.LabelID = l /\ m.ResourceID = id)

\* The error of LabelService.FindResourceLabels, "" when it answers.
FindResourceLabelsErr(S) == IF S.fault = "labels" THEN EInternal ELSE ""

\* The resource type of the label backend that NewNotificationEndpointHandler
\* registers the /:id/labels routes with.
TelegrafsResourceType == "telegrafs"
LabelBackendResourceType == TelegrafsResourceType

\* ID.DecodeFromString on a label id of the request
LabelIDValid(sid) == sid # "bad"

RECURSIVE MapLabels(_, _, _, _, _, _)
\* The loop of mapNewNotificationEndpointLabels.
MapLabels(S, nre, labels, i, ls, calls) ==
    IF i > Len(labels) THEN [S |-> S, labels |-> ls, calls |-> calls]
    ELSE IF ~LabelIDValid(labels[i])
         THEN MapLabels(S, nre, labels, i + 1, ls, calls)
    ELSE IF labels[i] \notin Labels \/ S.fault = "labels"
         THEN MapLabels(S, nre, labels, i + 1, ls, Append(calls, "FindLabelByID"))
    ELSE IF labels[i] \in UnmappableLabels
         THEN MapLabels(S, nre, labels, i + 1, ls,
                        calls \o <<"FindLabelByID", "CreateLabelMapping">>)
    ELSE LET mapping == [LabelID |-> labels[i], ResourceID |-> nre.ID,
                         ResourceType |-> NotificationEndpointResourceType]
         IN  MapLabels([S EXCEPT !.mappings = @ \cup {mapping}], nre, labels, i + 1,
                       Append(ls, labels[i]),
                       calls \o <<"FindLabelByID", "CreateLabelMapping">>)

\* The label id at position i fails to decode, to be found or to be mapped.
AttachFails(l) == ~LabelIDValid(l) \/ l \notin Labels \/ l \in UnmappableLabels

mapLabelsStopAtFailure(S, nre, labels) ==
    LET bad == {i \in 1 .. Len(labels) : AttachFails(labels[i])}
        n == IF bad = {} THEN Len(labels)
             ELSE (CHOOSE i \in bad : \A k \in bad : i <= k) - 1
    IN  MapLabels(S, nre, SubSeq(labels, 1, n), 1, <<>>, <<>>)

\* mapNewNotificationEndpointLabels
mapNewNotificationEndpointLabels(S, nre, labels) ==
    MapLabels(S, nre, labels, 1, <<>>, <<>>)

----------------------------------------------------------------------------
(* HTTP handlers.  A handler takes the server's state and the request and  *)
(* gives the state it leaves, the response, and the collaborator calls it  *)
(* made, in order.                                                         *)

\* ErrorHandler.HandleHTTPError: the status of an error code.
StatusOf(code) ==
    CASE code = EInvalid -> 400
      [] code = ENotFound -> 404
      [] OTHER -> 500

HandleHTTPError(S, code, calls) ==
    [S |-> S, status |-> StatusOf(code), body |-> [code |-> code], calls |-> calls]

\* newNotificationEndpointResponse
ResponseLeaks(edp, labels) ==
    MarshalPlaintext(edp)
        @@ [labels |-> labels,
            links |-> [self |-> "/api/v2/notificationEndpoints/" \o IDString(edp.ID)]]

\* newNotificationEndpointResponse and notificationEndpointResponse.MarshalJSON
newNotificationEndpointResponse(edp, labels) ==
    MarshalJSON(edp)
        @@ [labels |-> labels,
            links |-> [self |-> "/api/v2/notificationEndpoints/" \o IDString(edp.ID)]]

\* decodeGetNotificationEndpointRequest
decodeGetNotificationEndpointRequest(id) ==
    IF id = 0 THEN [err |-> EInvalid, id |-> 0] ELSE [err |-> "", id |-> id]

\* decodePostNotificationEndpointRequest
decodePostNotificationEndpointRequest(b) ==
    LET dec == UnmarshalJSON(b)
    IN  IF dec.err # "" THEN [err |-> EInvalid, edp |-> NoEndpoint, labels |-> <<>>]
        ELSE [err |-> "", edp |-> dec.edp, labels |-> Get(b, "labels", <<>>)]

decodePutRequiresFields(id, b) ==
    LET dec == UnmarshalJSON(b)
        i == IDFromString(id)
    IN  IF dec.err # "" \/ "url" \notin DOMAIN b THEN [err |-> EInvalid, edp |-> NoEndpoint]
        ELSE IF i.err # "" THEN [err |-> i.err, edp |-> NoEndpoint]
        ELSE [err |-> "", edp |-> [dec.edp EXCEPT !.ID = i.id]]

decodePutKeepsBodyID(id, b) ==
    LET dec == UnmarshalJSON(b)
        i == IDFromString(id)
    IN  IF dec.err # "" THEN [err |-> EInvalid, edp |-> NoEndpoint]
        ELSE IF i.err # "" THEN [err |-> i.err, edp |-> NoEndpoint]
        ELSE [err |-> "", edp |-> dec.edp]

\* decodePutNotificationEndpointRequest
decodePutNotificationEndpointRequest(id, b) ==
    LET dec == UnmarshalJSON(b)
        i == IDFromString(id)
    IN  IF dec.err # "" THEN [err |-> EInvalid, edp |-> NoEndpoint]
        ELSE IF i.err # "" THEN [err |-> i.err, edp |-> NoEndpoint]
        ELSE [err |-> "", edp |-> [dec.edp EXCEPT !.ID = i.id]]

decodePatchSkipsValid(id, b) ==
    LET i == IDFromString(id)
        upd == [Name |-> Get(b, "name", Nil),
                Description |-> Get(b, "description", Nil),
                Status |-> Get(b, "status", Nil)]
    IN  IF i.err # "" THEN [err |-> i.err, id |-> 0, upd |-> NoUpdate]
        ELSE IF "malformed" \in DOMAIN b THEN [err |-> EInvalid, id |-> 0, upd |-> NoUpdate]
        ELSE [err |-> "", id |-> i.id, upd |-> upd]

\* decodePatchNotificationEndpointRequest
decodePatchNotificationEndpointRequest(id, b) ==
    LET i == IDFromString(id)
        upd == [Name |-> Get(b, "name", Nil),
                Description |-> Get(b, "description", Nil),
                Status |-> Get(b, "status", Nil)]
    IN  IF i.err # "" THEN [err |-> i.err, id |-> 0, upd |-> NoUpdate]
        ELSE IF "malformed" \in DOMAIN b THEN [err |-> EInvalid, id |-> 0, upd |-> NoUpdate]
        ELSE IF ~UpdateValid(upd) THEN [err |-> EInvalid, id |-> 0, upd |-> NoUpdate]
        ELSE [err |-> "", id |-> i.id, upd |-> upd]

handlePostIgnoresDecodeError(S, b, authed) ==
    LET req == decodePostNotificationEndpointRequest(b)
        edp == IF req.err # ""
               THEN UnmarshalJSON([b EXCEPT !["type"] = SlackType]).edp ELSE req.edp
        c == SvcCreate(S, edp)
    IN  IF ~authed THEN HandleHTTPError(S, EInternal, <<>>)
        ELSE IF c.err # "" THEN HandleHTTPError(S, c.err, <<"Create">>)
        ELSE LET m == mapNewNotificationEndpointLabels(c.S, c.edp, Get(b, "labels", <<>>))
             IN  [S |-> m.S, status |-> 201,
                  body |-> newNotificationEndpointResponse(c.edp, m.labels),
                  calls |-> <<"Create">> \o m.calls]

\* handlePostNotificationEndpoint
handlePostNotificationEndpoint(S, b, authed) ==
    LET req == decodePostNotificationEndpointRequest(b)
        c == SvcCreate(S, req.edp)
    IN  IF req.err # "" THEN HandleHTTPError(S, req.err, <<>>)
        ELSE IF ~authed THEN HandleHTTPError(S, EInternal, <<>>)
        ELSE IF c.err # "" THEN HandleHTTPError(S, c.err, <<"Create">>)
        ELSE LET m == mapNewNotificationEndpointLabels(c.S, c.edp, req.labels)
             IN  [S |-> m.S, status |-> 201,
                  body |-> newNotificationEndpointResponse(c.edp, m.labels),
                  calls |-> <<"Create">> \o m.calls]

\* handleGetNotificationEndpoint
handleGetNotificationEndpoint(S, id) ==
    LET req == decodeGetNotificationEndpointRequest(id)
        f == SvcFindByID(S, req.id)
    IN  IF req.err # "" THEN HandleHTTPError(S, req.err, <<>>)
        ELSE IF f.err # "" THEN HandleHTTPError(S, f.err, <<"FindByID">>)
        ELSE IF FindResourceLabelsErr(S) # ""
        THEN HandleHTTPError(S, FindResourceLabelsErr(S),
                             <<"FindByID", "FindResourceLabels">>)
        ELSE [S |-> S, status |-> 200,
              body |-> newNotificationEndpointResponse(
                           f.edp, FindResourceLabels(S, f.edp.ID)),
              calls |-> <<"FindByID", "FindResourceLabels">>]

\* handleGetNotificationEndpoints with newNotificationEndpointsResponse,
\* which drops the error of FindResourceLabels.
handleGetNotificationEndpoints(S) ==
    LET found == SelectSeq([i \in 1 .. MaxID |-> i], LAMBDA i : Exists(S, i))
    IN  IF S.fault = "endpoints" THEN HandleHTTPError(S, EInternal, <<"Find">>)
        ELSE
        [S |-> S, status |-> 200,
         body |-> [notificationEndpoints |->
                     [k \in 1 .. Len(found) |->
                        newNotificationEndpointResponse(
                            S.store[found[k]], FindResourceLabels(S, found[k]))]],
         calls |-> <<"Find">> \o [k \in 1 .. Len(found) |-> "FindResourceLabels"]]

handlePutKeepsStoredVariant(S, id, b) ==
    LET req == decodePutNotificationEndpointRequest(id, b)
        old == IF req.err = "" /\ Exists(S, req.edp.ID) THEN S.store[req.edp.ID] ELSE req.edp
        u == SvcUpdate(S, UpdateEndpoint([req.edp EXCEPT !.Type = old.Type,
                                             !.Secrets = old.Secrets]))
    IN  IF req.err # "" THEN HandleHTTPError(S, req.err, <<>>)
        ELSE IF u.err # "" THEN HandleHTTPError(S, u.err, <<"Update">>)
        ELSE [S |-> u.S, status |-> 200,
              body |-> newNotificationEndpointResponse(
                           u.edp, FindResourceLabels(u.S, u.edp.ID)),
              calls |-> <<"Update", "FindResourceLabels">>]

\* handlePutNotificationEndpoint
handlePutNotificationEndpoint(S, id, b) ==
    LET req == decodePutNotificationEndpointRequest(id, b)
        u == SvcUpdate(S, UpdateEndpoint(req.edp))
    IN  IF req.err # "" THEN HandleHTTPError(S, req.err, <<>>)
        ELSE IF u.err # "" THEN HandleHTTPError(S, u.err, <<"Update">>)
        ELSE IF FindResourceLabelsErr(u.S) # ""
        THEN HandleHTTPError(u.S, FindResourceLabelsErr(u.S),
                             <<"Update", "FindResourceLabels">>)
        ELSE [S |-> u.S, status |-> 200,
              body |-> newNotificationEndpointResponse(
                           u.edp, FindResourceLabels(u.S, u.edp.ID)),
              calls |-> <<"Update", "FindResourceLabels">>]

\* handlePatchNotificationEndpoint
handlePatchNotificationEndpoint(S, id, b) ==
    LET req == decodePatchNotificationEndpointRequest(id, b)
        u == SvcUpdate(S, UpdateChangeSet(req.id, req.upd))
    IN  IF req.err # "" THEN HandleHTTPError(S, req.err, <<>>)
        ELSE IF u.err # "" THEN HandleHTTPError(S, u.err, <<"Update">>)
        ELSE IF FindResourceLabelsErr(u.S) # ""
        THEN HandleHTTPError(u.S, FindResourceLabelsErr(u.S),
                             <<"Update", "FindResourceLabels">>)
        ELSE [S |-> u.S, status |-> 200,
              body |-> newNotificationEndpointResponse(
                           u.edp, FindResourceLabels(u.S, u.edp.ID)),
              calls |-> <<"Update", "FindResourceLabels">>]

handleDeleteIgnoresError(S, id) ==
    LET req == decodeGetNotificationEndpointRequest(id)
        d == SvcDelete(S, req.id)
    IN  [S |-> d.S, status |-> 204, body |-> [code |-> ""], calls |-> <<"Delete">>]

\* handleDeleteNotificationEndpoint
handleDeleteNotificationEndpoint(S, id) ==
    LET req == decodeGetNotificationEndpointRequest(id)
        d == SvcDelete(S, req.id)
    IN  IF req.err # "" THEN HandleHTTPError(S, req.err, <<>>)
        ELSE IF d.err # "" THEN HandleHTTPError(S, d.err, <<"Delete">>)
        ELSE [S |-> d.S, status |-> 204, body |-> [code |-> ""], calls |-> <<"Delete">>]

\* newPostLabelHandler of the label backend on /:id/labels: the mapping of
\* the label to the resource of the path carries the backend's resource
\* type.
newPostLabelHandler(S, id, l) ==
    IF IDFromString(id).err # "" \/ ~LabelIDValid(l)
    THEN HandleHTTPError(S, EInvalid, <<>>)
    ELSE IF l \notin Labels \/ l \in UnmappableLabels \/ S.fault = "labels"
    THEN HandleHTTPError(S, EInternal, <<"CreateLabelMapping">>)
    ELSE LET mapping == [LabelID |-> l, ResourceID |-> id,
                         ResourceType |-> LabelBackendResourceType]
         IN  [S |-> [S EXCEPT !.mappings = @ \cup {mapping}], status |-> 201,
              body |-> [labels |-> <<l>>],
              calls |-> <<"CreateLabelMapping", "FindLabelByID">>]

----------------------------------------------------------------------------
(* The HTTP client: NotificationEndpointService of                         *)
(* http/notification_endpoint.go.  A client call takes the server's state  *)
(* (the request is served synchronously) and gives the state the server is *)
(* left in, the call's result, the caller's endpoint object as the call    *)
(* leaves it, and the requests sent.                                       *)

\* &endpoint.HTTP{}
BlankHTTP ==
    [Type |-> HTTPType, ID |-> 0, OrgID |-> 0, Name |-> "", Description |-> "",
     Status |-> "", CreatedAt |-> 0, UpdatedAt |-> 0, URL |-> "",
     Secrets |-> [f \in Range(SecretNames(HTTPType)) |-> NoSecret]]

NotSent(S) == [S |-> S, status |-> 0, body |-> [code |-> ""], calls |-> <<>>]

\* httpc: a response outside 2xx is the call's error.
StatusErr(r) == IF r.status \in {200, 201, 204} THEN "" ELSE r.body.code

\* NotificationEndpointService.Create
Create(S, ne) ==
    LET enc == EncoderMarshalJSON(ne)
        r == handlePostNotificationEndpoint(S, enc.json, TRUE)
        dec == DecoderUnmarshalJSON(r.body)
        sent == <<[method |-> "POST", id |-> 0, body |-> enc.json]>>
    IN  IF StatusErr(r) # ""
        THEN [r |-> r, err |-> StatusErr(r), edp |-> NoEndpoint, ne |-> enc.ne, sent |-> sent]
        ELSE IF dec.err # ""
        THEN [r |-> r, err |-> dec.err, edp |-> NoEndpoint, ne |-> enc.ne, sent |-> sent]
        ELSE [r |-> r, err |-> "", edp |-> NoEndpoint,
              ne |-> [enc.ne EXCEPT !.ID = dec.edp.ID, !.OrgID = dec.edp.OrgID],
              sent |-> sent]

\* NotificationEndpointService.update
update(S, u) ==
    LET endpoint == Fn(u, 0, BlankHTTP)
        enc == EncoderMarshalJSON(endpoint)
        r == handlePutNotificationEndpoint(S, endpoint.ID, enc.json)
        dec == DecoderUnmarshalJSON(r.body)
        sent == <<[method |-> "PUT", id |-> endpoint.ID, body |-> enc.json]>>
    IN  IF StatusErr(r) # ""
        THEN [r |-> r, err |-> StatusErr(r), edp |-> NoEndpoint, ne |-> enc.ne, sent |-> sent]
        ELSE IF dec.err # ""
        THEN [r |-> r, err |-> dec.err, edp |-> NoEndpoint, ne |-> enc.ne, sent |-> sent]
        ELSE [r |-> r, err |-> "", edp |-> dec.edp, ne |-> enc.ne, sent |-> sent]

\* The request NotificationEndpointService.patch builds from the update.
patchRequest(u) ==
    LET endpoint == Fn(u, 0, BlankHTTP)
        all == [name |-> endpoint.Name, description |-> endpoint.Description,
                status |-> endpoint.Status]
    IN  [method |-> "PATCH", id |-> endpoint.ID,
         body |-> [f \in {"description"}
                        \cup (IF endpoint.Name # "" THEN {"name"} ELSE {})
                        \cup (IF StatusValid(endpoint.Status) THEN {"status"} ELSE {})
                    |-> all[f]]]

\* NotificationEndpointService.patch
patch(S, u) ==
    LET req == patchRequest(u)
        r == handlePatchNotificationEndpoint(S, req.id, req.body)
        dec == DecoderUnmarshalJSON(r.body)
        sent == <<req>>
    IN  IF StatusErr(r) # ""
        THEN [r |-> r, err |-> StatusErr(r), edp |-> NoEndpoint, ne |-> u.edp, sent |-> sent]
        ELSE IF dec.err # ""
        THEN [r |-> r, err |-> dec.err, edp |-> NoEndpoint, ne |-> u.edp, sent |-> sent]
        ELSE [r |-> r, err |-> "", edp |-> dec.edp, ne |-> u.edp, sent |-> sent]

UpdateDefaultsToReplace(S, u) ==
    IF u.UpdateType = "change_set" THEN patch(S, u) ELSE update(S, u)

\* NotificationEndpointService.Update
Update(S, u) ==
    IF u.UpdateType = "endpoint" THEN update(S, u)
    ELSE IF u.UpdateType = "change_set" THEN patch(S, u)
    ELSE [r |-> NotSent(S), err |-> EInvalid, edp |-> NoEndpoint, ne |-> u.edp,
          sent |-> <<>>]

\* NotificationEndpointService.FindByID
FindByID(S, id) ==
    LET r == handleGetNotificationEndpoint(S, id)
        dec == DecoderUnmarshalJSON(r.body)
        sent == <<[method |-> "GET", id |-> id, body |-> <<>>]>>
    IN  IF StatusErr(r) # ""
        THEN [r |-> r, err |-> StatusErr(r), edp |-> NoEndpoint, sent |-> sent]
        ELSE IF dec.err # ""
        THEN [r |-> r, err |-> dec.err, edp |-> NoEndpoint, sent |-> sent]
        ELSE [r |-> r, err |-> "", edp |-> dec.edp, sent |-> sent]

\* NotificationEndpointService.Delete
Delete(S, id) ==
    LET r == handleDeleteNotificationEndpoint(S, id)
    IN  [r |-> r, err |-> StatusErr(r), edp |-> NoEndpoint,
         sent |-> <<[method |-> "DELETE", id |-> id, body |-> <<>>]>>]

----------------------------------------------------------------------------
(* The state machine *)

VARIABLES
    store,      \* the endpoints persistence holds, by identifier
    mappings,   \* the label mappings of the label service
    nextID,     \* the identifier the generator hands out next
    now,        \* the reading of the time generator
    op,         \* the operation performed last
    resp,       \* the HTTP response to the last request served
    calls,      \* the collaborator calls of the last request served
    cne,        \* the endpoint object of the client's caller
    cres,       \* the result of the client call of the last operation, if it was one
    sent,       \* the requests that client call sent
    bf,         \* the value a method or codec function is called on, and what it returned
    flight,     \* the update requests in flight, when they overlap
    disk,       \* the files the restore command works on
    ui          \* the templates state of the UI and the action it is running

vars ==
    <<store, mappings, nextID, now, op, resp, calls, cne, cres, sent, bf, flight, disk, ui>>

Srv ==
    [store |-> store, mappings |-> mappings, nextID |-> nextID, now |-> now,
     fault |-> NoFault]

\* The server at a request during which the collaborator flt fails.
SrvWith(flt) == [Srv EXCEPT !.fault = flt]

NoOp ==
    [kind |-> "none", id |-> 0, body |-> <<>>, authed |-> TRUE, fault |-> NoFault,
     update |-> UpdateChangeSet(0, NoUpdate)]
NoResult == [err |-> "", edp |-> NoEndpoint]
NoResponse == [status |-> 0, body |-> [code |-> ""]]

\* Request bodies of POST.
PostBodies ==
    { [type |-> SlackType, orgID |-> 1, name |-> "hello", description |-> "desc1",
       status |-> Active, url |-> "u1", token |-> "v1",
       labels |-> <<"l2", "bad", "l9", "l3", "l1">>],
      [type |-> SlackType, orgID |-> 1, name |-> "hello", url |-> "u1"],
      [type |-> HTTPType, orgID |-> 1, name |-> "hello", description |-> "desc1",
       status |-> Active, url |-> "u1", username |-> "v1", password |-> "v2"],
      [type |-> "bogus", orgID |-> 1, name |-> "hello", status |-> Active,
       url |-> "u1", token |-> "v1", labels |-> <<"l1">>],
      [type |-> SlackType, orgID |-> 1, name |-> "hello", status |-> Active,
       labels |-> <<"l2">>] }

\* Request bodies of PUT.
PutBodies ==
    { [type |-> SlackType, orgID |-> 1, name |-> "example", status |-> Active,
       url |-> "u2", token |-> ""],
      [type |-> SlackType, id |-> 2, orgID |-> 1, name |-> "example", status |-> Active,
       url |-> "u2", token |-> "v2", createdAt |-> 9],
      [type |-> SlackType, orgID |-> 1, name |-> "hello", status |-> Active,
       url |-> "u1", token |-> "secret: k1"],
      [type |-> HTTPType, orgID |-> 1, name |-> "example", status |-> Inactive,
       url |-> "u2", username |-> "v1"],
      [type |-> SlackType, name |-> "example"],
      [type |-> "bogus", orgID |-> 1, name |-> "example", status |-> Active,
       url |-> "u2"] }

\* Request bodies of PATCH.
PatchBodies ==
    { [name |-> "example"],
      [description |-> "desc2"],
      [status |-> Inactive],
      [status |-> "bogus"],
      [name |-> "example", description |-> ""],
      [malformed |-> TRUE] }

\* The endpoints a caller of the client constructs.
ClientObjects ==
    { [Type |-> SlackType, ID |-> 0, OrgID |-> 1, Name |-> "hello", Description |-> "desc1",
       Status |-> Active, CreatedAt |-> 0, UpdatedAt |-> 0, URL |-> "u1",
       Secrets |-> [f \in {"token"} |-> [Key |-> "", Value |-> "v1"]]],
      [Type |-> HTTPType, ID |-> 0, OrgID |-> 1, Name |-> "hello", Description |-> "desc1",
       Status |-> Active, CreatedAt |-> 0, UpdatedAt |-> 0, URL |-> "u1",
       Secrets |-> [f \in {"username", "password"} |->
                       [Key |-> "", Value |-> IF f = "username" THEN "v1" ELSE "v2"]]] }

\* The change-sets a caller of the client passes.
ClientChangeSets ==
    { [Name |-> "example", Description |-> Nil, Status |-> Nil],
      [Name |-> Nil, Description |-> "desc2", Status |-> Inactive] }

\* What a call on the endpoint under test returned: nothing yet.
NoOut == [fn |-> "", err |-> "", fields |-> <<>>, json |-> <<>>]

NoBackfill ==
    [e0 |-> NoEndpoint, e1 |-> NoEndpoint, e |-> NoEndpoint, n |-> 0, out |-> NoOut]

InitServer ==
    /\ store = [i \in IDs |-> NoEndpoint]
    /\ mappings = {}
    /\ nextID = 1
    /\ now = 1
    /\ op = NoOp
    /\ resp = NoResponse
    /\ calls = <<>>
    /\ cne = NoEndpoint
    /\ cres = NoResult
    /\ sent = <<>>

\* No update request in flight.
NoFlight == <<>>

\* The restore command has not been pointed at any files.
NoDisk == [pc |-> "none"]

\* The UI has not been started.
NoUI == [pc |-> "none"]

\* Nothing but the handler and the client is at work.
Alone == flight = NoFlight /\ disk = NoDisk /\ ui = NoUI

Init == InitServer /\ bf = NoBackfill /\ Alone

\* The clock and the identifier generator stay within the model's bounds.
InBounds == now <= MaxTime /\ nextID <= MaxID

\* The clock alone, for the operations that create no endpoint.
ClockInBounds == now <= MaxTime

\* Requests are made one at a time: the next one when the response to the
\* last one has been taken.
Idle == op = NoOp

\* A request that does not come from the client's caller: no client call
\* is made in this step.
NoCall == cres' = NoResult /\ sent' = <<>> /\ UNCHANGED cne

Serve(r) ==
    /\ store' = r.S.store
    /\ mappings' = r.S.mappings
    /\ nextID' = r.S.nextID
    /\ now' = r.S.now
    /\ resp' = [status |-> r.status, body |-> r.body]
    /\ calls' = r.calls
    /\ UNCHANGED <<bf, flight, disk, ui>>

PostRequest ==
    /\ Idle
    /\ InBounds
    /\ \E b \in PostBodies, authed \in BOOLEAN, flt \in Faults :
          /\ Serve(handlePostNotificationEndpoint(SrvWith(flt), b, authed))
          /\ op' = [NoOp EXCEPT !.kind = "POST", !.body = b, !.authed = authed,
                                !.fault = flt]
    /\ NoCall

GetRequest ==
    /\ Idle
    /\ \E id \in 0 .. MaxID, flt \in Faults :
          /\ Serve(handleGetNotificationEndpoint(SrvWith(flt), id))
          /\ op' = [NoOp EXCEPT !.kind = "GET", !.id = id, !.fault = flt]
    /\ NoCall

GetAllRequest ==
    /\ Idle
    /\ \E flt \in Faults :
          /\ Serve(handleGetNotificationEndpoints(SrvWith(flt)))
          /\ op' = [NoOp EXCEPT !.kind = "GET all", !.fault = flt]
    /\ NoCall

PutRequest ==
    /\ Idle
    /\ ClockInBounds
    /\ \E id \in 0 .. MaxID, b \in PutBodies, flt \in Faults :
          /\ Serve(handlePutNotificationEndpoint(SrvWith(flt), id, b))
          /\ op' = [NoOp EXCEPT !.kind = "PUT", !.id = id, !.body = b, !.fault = flt]
    /\ NoCall

PatchRequest ==
    /\ Idle
    /\ ClockInBounds
    /\ \E id \in 0 .. MaxID, b \in PatchBodies, flt \in Faults :
          /\ Serve(handlePatchNotificationEndpoint(SrvWith(flt), id, b))
          /\ op' = [NoOp EXCEPT !.kind = "PATCH", !.id = id, !.body = b, !.fault = flt]
    /\ NoCall

DeleteRequest ==
    /\ Idle
    /\ \E id \in 0 .. MaxID, flt \in Faults :
          /\ Serve(handleDeleteNotificationEndpoint(SrvWith(flt), id))
          /\ op' = [NoOp EXCEPT !.kind = "DELETE", !.id = id, !.fault = flt]
    /\ NoCall

Return(c) ==
    /\ Serve(c.r)
    /\ cres' = [err |-> c.err, edp |-> c.edp]
    /\ sent' = c.sent

CallCreate ==
    /\ Idle
    /\ InBounds
    /\ \E ne \in ClientObjects :
          LET c == Create(Srv, ne)
          IN  /\ Return(c)
              /\ cne' = c.ne
              /\ op' = [NoOp EXCEPT !.kind = "Create"]

\* Full replace with the caller's object, as it is or with a new URL.
CallUpdateEndpoint ==
    /\ Idle
    /\ ClockInBounds
    /\ IsEndpoint(cne)
    /\ \E url \in {cne.URL, "u2"} :
          LET u == UpdateEndpoint([cne EXCEPT !.URL = url])
              c == Update(Srv, u)
          IN  /\ Return(c)
              /\ cne' = c.ne
              /\ op' = [NoOp EXCEPT !.kind = "Update", !.id = u.ID, !.update = u]

CallUpdateChangeSet ==
    /\ Idle
    /\ ClockInBounds
    /\ \E id \in IDs, upd \in ClientChangeSets :
          LET u == UpdateChangeSet(id, upd)
              c == Update(Srv, u)
          IN  /\ Return(c)
              /\ op' = [NoOp EXCEPT !.kind = "Update", !.id = id, !.update = u]
    /\ UNCHANGED cne

CallUpdateOther ==
    /\ Idle
    /\ ClockInBounds
    /\ \E id \in IDs, upd \in ClientChangeSets :
          LET u == [UpdateChangeSet(id, upd) EXCEPT !.UpdateType = "other"]
              c == Update(Srv, u)
          IN  /\ Return(c)
              /\ op' = [NoOp EXCEPT !.kind = "Update", !.id = id, !.update = u]
    /\ UNCHANGED cne

CallFindByID ==
    /\ Idle
    /\ \E id \in IDs :
          /\ Return(FindByID(Srv, id))
          /\ op' = [NoOp EXCEPT !.kind = "FindByID", !.id = id]
    /\ UNCHANGED cne

CallDelete ==
    /\ Idle
    /\ \E id \in IDs :
          /\ Return(Delete(Srv, id))
          /\ op' = [NoOp EXCEPT !.kind = "Delete", !.id = id]
    /\ UNCHANGED cne

\* The caller takes the response, or the result of the client call.
TakeResponse ==
    /\ ~Idle
    /\ op' = NoOp
    /\ resp' = NoResponse
    /\ calls' = <<>>
    /\ cres' = NoResult
    /\ sent' = <<>>
    /\ UNCHANGED <<store, mappings, nextID, now, cne, bf, flight, disk, ui>>

Next ==
    \/ PostRequest
    \/ GetRequest
    \/ GetAllRequest
    \/ PutRequest
    \/ PatchRequest
    \/ DeleteRequest
    \/ CallCreate
    \/ CallUpdateEndpoint
    \/ CallUpdateChangeSet
    \/ CallUpdateOther
    \/ CallFindByID
    \/ CallDelete
    \/ TakeResponse

Spec == Init /\ [][Next]_vars

\* The HTTP request served in the last step.
RequestOf(o, s) ==
    IF s # <<>> THEN s[1] ELSE [method |-> o.kind, id |-> o.id, body |-> o.body]

Request == RequestOf(op, sent)

----------------------------------------------------------------------------
(* The label routes of the handler: labels are attached from the labels   *)
(* list of a POST and through /:id/labels, and looked up by the routes    *)
(* that answer with an endpoint.                                           *)

\* POST /api/v2/notificationEndpoints/:id/labels
PostLabelRequest ==
    /\ Idle
    /\ \E id \in 0 .. MaxID, l \in {"l1", "l9"} :
          /\ Serve(newPostLabelHandler(Srv, id, l))
          /\ op' = [NoOp EXCEPT !.kind = "POST label", !.id = id,
                                !.body = [labelID |-> l]]
    /\ NoCall

NextLabels ==
    \/ PostRequest
    \/ PostLabelRequest
    \/ GetRequest
    \/ GetAllRequest
    \/ PutRequest
    \/ PatchRequest
    \/ TakeResponse

SpecLabels == Init /\ [][NextLabels]_vars

----------------------------------------------------------------------------
(* BackfillSecretKeys as a function: an endpoint drawn from a bounded set  *)
(* and the calls made on it.                                               *)

MaxCalls == 3

SecretStates ==
    { NoSecret, [Key |-> "", Value |-> "v1"], [Key |-> "k1", Value |-> Nil],
      [Key |-> "k1", Value |-> "v2"] }

BackfillInputs ==
    UNION { { [BlankHTTP EXCEPT !.Type = t, !.ID = i, !.Name = "hello", !.Status = Active,
                                !.URL = "u1", !.Secrets = sec] :
                sec \in [Range(SecretNames(t)) -> SecretStates] } :
            t \in KnownTypes, i \in 0 .. MaxID }

InitBackfill ==
    /\ InitServer
    /\ Alone
    /\ bf \in { [e0 |-> e, e1 |-> NoEndpoint, e |-> e, n |-> 0, out |-> NoOut] :
                  e \in BackfillInputs }

CallBackfillSecretKeys ==
    /\ bf.n < MaxCalls
    /\ bf' = [bf EXCEPT !.e = BackfillSecretKeys(bf.e),
                        !.e1 = IF bf.n = 0 THEN BackfillSecretKeys(bf.e) ELSE @,
                        !.n = @ + 1,
                        !.out = [NoOut EXCEPT !.fn = "BackfillSecretKeys"]]
    /\ UNCHANGED <<store, mappings, nextID, now, op, resp, calls, cne, cres, sent,
                   flight, disk, ui>>

NextBackfill == CallBackfillSecretKeys

SpecBackfill == InitBackfill /\ [][NextBackfill]_vars

----------------------------------------------------------------------------
(* The variant's methods and the two encoders as functions: an endpoint    *)
(* drawn from a bounded set and the calls made on it.                      *)

\* A secret field of an endpoint with the identifier i: unset, a value not
\* yet keyed, a derived key without a value, a foreign key with a value.
VariantSecretStates(i, f) ==
    { NoSecret, [Key |-> "", Value |-> "v1"],
      [Key |-> IDString(i) \o Suffix(f), Value |-> Nil],
      [Key |-> "k1", Value |-> "v2"] }

VariantInputs ==
    UNION { { [BlankHTTP EXCEPT !.Type = SlackType, !.ID = i, !.Name = nm, !.Status = st,
                                !.URL = u, !.Secrets = sec] :
                nm \in {"", "hello"}, st \in {"", Active, "bogus"}, u \in {"", "u1", "%zz"},
                sec \in [{"token"} -> VariantSecretStates(i, "token")] }
            \cup
            { [BlankHTTP EXCEPT !.ID = i, !.Name = "hello", !.Status = Inactive,
                                !.URL = "u1", !.Secrets = sec] :
                sec \in { [username |-> a, password |-> b] :
                             a \in VariantSecretStates(i, "username"),
                             b \in VariantSecretStates(i, "password") } } :
            i \in 0 .. MaxID }

InitVariant ==
    /\ InitServer
    /\ Alone
    /\ bf \in { [e0 |-> e, e1 |-> NoEndpoint, e |-> e, n |-> 0, out |-> NoOut] :
                  e \in VariantInputs }

\* A call that has a value receiver: the endpoint is as before.
Returned(o) ==
    /\ bf.n < MaxCalls
    /\ bf' = [bf EXCEPT !.n = @ + 1, !.out = o]
    /\ UNCHANGED <<store, mappings, nextID, now, op, resp, calls, cne, cres, sent,
                   flight, disk, ui>>

CallValid ==
    Returned([NoOut EXCEPT !.fn = "Valid",
                           !.err = IF Valid(bf.e) THEN "" ELSE EInvalid])

CallSecretFields ==
    Returned([NoOut EXCEPT !.fn = "SecretFields", !.fields = SecretFields(bf.e)])

CallMarshalJSON ==
    Returned([NoOut EXCEPT !.fn = "MarshalJSON", !.json = MarshalJSON(bf.e)])

\* The client's encoder holds the caller's endpoint and backfills it.
CallEncoderMarshalJSON ==
    /\ bf.n < MaxCalls
    /\ LET r == EncoderMarshalJSON(bf.e)
       IN  bf' = [bf EXCEPT !.e = r.ne, !.n = @ + 1,
                            !.out = [NoOut EXCEPT !.fn = "Encoder", !.json = r.json]]
    /\ UNCHANGED <<store, mappings, nextID, now, op, resp, calls, cne, cres, sent,
                   flight, disk, ui>>

NextVariant ==
    \/ CallValid
    \/ CallSecretFields
    \/ CallMarshalJSON
    \/ CallEncoderMarshalJSON
    \/ CallBackfillSecretKeys

SpecVariant == InitVariant /\ [][NextVariant]_vars

----------------------------------------------------------------------------
(* The decoders as functions: a JSON object drawn from a bounded set and   *)
(* the decoder applied to it.                                              *)

\* The values the fields other than type and the secrets have on the wire.
WireBase ==
    [id |-> 2, name |-> "hello", description |-> "desc1", status |-> Active, url |-> "u1"]

\* What a secret field carries on the wire.
WireSecrets == {"", "v1", "secret: k1"}

\* JSON objects with a recognized type and any subset of the other fields.
DecodeInputs ==
    UNION { { [f \in {"type"} \cup fs \cup DOMAIN sec |->
                  IF f = "type" THEN t ELSE IF f \in fs THEN WireBase[f] ELSE sec[f]] :
                fs \in SUBSET DOMAIN WireBase,
                sec \in UNION { [ss -> WireSecrets] : ss \in SUBSET Range(SecretNames(t)) } } :
            t \in KnownTypes }

InitDecode ==
    /\ InitServer
    /\ Alone
    /\ bf \in { [e0 |-> NoEndpoint, e1 |-> NoEndpoint, e |-> NoEndpoint, n |-> 0,
                  out |-> NoOut, wire |-> b] : b \in DecodeInputs }

\* A decoder returned the endpoint edp or the error err.
Decoded(fn, r) ==
    /\ bf.n < MaxCalls
    /\ bf' = [bf EXCEPT !.e = r.edp, !.n = @ + 1,
                        !.out = [NoOut EXCEPT !.fn = fn, !.err = r.err]]
    /\ UNCHANGED <<store, mappings, nextID, now, op, resp, calls, cne, cres, sent,
                   flight, disk, ui>>

CallDecodePost == Decoded("decodePost", decodePostNotificationEndpointRequest(bf.wire))

CallDecodePut ==
    \E id \in IDs : Decoded("decodePut", decodePutNotificationEndpointRequest(id, bf.wire))

CallDecoderUnmarshalJSON == Decoded("Decoder", DecoderUnmarshalJSON(bf.wire))

NextDecode ==
    \/ CallDecodePost
    \/ CallDecodePut
    \/ CallDecoderUnmarshalJSON

SpecDecode == InitDecode /\ [][NextDecode]_vars

----------------------------------------------------------------------------
(* Overlapping updates: change-set updates of one stored endpoint, each    *)
(* through the PATCH handler or through the client, with the service's     *)
(* Update (load, mutate, persist) as one step.                             *)

MaxFlights == 2

\* The server after one POST that created endpoint 01 with labels.
CreatedSrv ==
    LET b == CHOOSE b \in PostBodies :
                 b.type = SlackType /\ "token" \in DOMAIN b /\ "labels" \in DOMAIN b
    IN  handlePostNotificationEndpoint(
            [store |-> [i \in IDs |-> NoEndpoint], mappings |-> {}, nextID |-> 1,
             now |-> 1, fault |-> NoFault], b, TRUE).S

\* Change-sets that each set one base field.
FlightChangeSets ==
    { [NoUpdate EXCEPT !.Name = "example"],
      [NoUpdate EXCEPT !.Description = "desc2"],
      [NoUpdate EXCEPT !.Status = Inactive] }

\* The PATCH body that carries exactly the change-set upd.
ChangeSetJSON(upd) ==
    LET all == [name |-> upd.Name, description |-> upd.Description, status |-> upd.Status]
    IN  [f \in {g \in DOMAIN all : all[g] # Nil} |-> all[f]]

InitConcurrent ==
    /\ store = CreatedSrv.store
    /\ mappings = CreatedSrv.mappings
    /\ nextID = CreatedSrv.nextID
    /\ now = CreatedSrv.now
    /\ op = NoOp /\ resp = NoResponse /\ calls = <<>>
    /\ cne = NoEndpoint /\ cres = NoResult /\ sent = <<>>
    /\ bf = NoBackfill
    /\ flight = NoFlight
    /\ disk = NoDisk
    /\ ui = NoUI

\* A request joins the ones in flight.
Start(f) ==
    /\ Len(flight) < MaxFlights
    /\ flight' = Append(flight, f)
    /\ UNCHANGED <<store, mappings, nextID, now, op, resp, calls, cne, cres, sent, bf, disk, ui>>

\* A PATCH request reaches the handler.
StartPatch ==
    \E id \in IDs, upd \in FlightChangeSets :
        Start([via |-> "handler", id |-> id, upd |-> upd, pc |-> "received",
               req |-> [method |-> "PATCH", id |-> id, body |-> ChangeSetJSON(upd)],
               edp |-> NoEndpoint, resp |-> NoResponse])

\* A caller of the client calls Update with a change-set; the client sends
\* the request it builds.
StartUpdate ==
    \E id \in IDs, upd \in FlightChangeSets :
        Start([via |-> "client", id |-> id, upd |-> upd, pc |-> "received",
               req |-> patchRequest(UpdateChangeSet(id, upd)),
               edp |-> NoEndpoint, resp |-> NoResponse])

\* handlePatchNotificationEndpoint up to the return of the service's
\* Update, which loads, mutates and persists in one step.
ApplyUpdate ==
    \E i \in DOMAIN flight :
        /\ flight[i].pc = "received"
        /\ LET f == flight[i]
               req == decodePatchNotificationEndpointRequest(f.req.id, f.req.body)
               u == SvcUpdate(Srv, UpdateChangeSet(req.id, req.upd))
               err == IF req.err # "" THEN req.err ELSE u.err
               h == HandleHTTPError(Srv, err, <<>>)
           IN  IF err # ""
               THEN /\ flight' = [flight EXCEPT ![i].pc = "done",
                                      ![i].resp = [status |-> h.status, body |-> h.body]]
                    /\ UNCHANGED <<store, now>>
               ELSE /\ flight' = [flight EXCEPT ![i].pc = "updated", ![i].edp = u.edp]
                    /\ store' = u.S.store
                    /\ now' = u.S.now
        /\ UNCHANGED <<mappings, nextID, op, resp, calls, cne, cres, sent, bf, disk, ui>>

\* The rest of handlePatchNotificationEndpoint: the labels are looked up
\* and the endpoint the service returned is encoded.
Respond ==
    \E i \in DOMAIN flight :
        /\ flight[i].pc = "updated"
        /\ flight' = [flight EXCEPT ![i].pc = "done",
               ![i].resp = [status |-> 200,
                            body |-> newNotificationEndpointResponse(
                                         flight[i].edp,
                                         FindResourceLabels(Srv, flight[i].edp.ID))]]
        /\ UNCHANGED <<store, mappings, nextID, now, op, resp, calls, cne, cres, sent,
                       bf, disk, ui>>

NextConcurrent ==
    \/ StartPatch
    \/ StartUpdate
    \/ ApplyUpdate
    \/ Respond

SpecConcurrent == InitConcurrent /\ [][NextConcurrent]_vars

----------------------------------------------------------------------------
(* The restore command: runs of restoreE over the bolt file, the engine    *)
(* directory, their temporary paths and the backup.  Each function of the  *)
(* command is one step; a system call in it succeeds or fails.             *)

MaxRuns == 2

\* A path that holds no file.
Absent == "absent"

\* A path that holds no directory.
AbsentDir == [kind |-> "absent", hasData |-> FALSE, files |-> <<>>]

\* The engine directory that is there before the first run.
OrigEngine == [kind |-> "orig", hasData |-> TRUE, files |-> ("old.tsm" :> "old")]

\* A directory left at the temporary engine path by something earlier.
StaleDir == [kind |-> "stale", hasData |-> FALSE, files |-> <<>>]

\* os.Mkdir(flags.enginePath): a new, empty directory.
NewDir == [kind |-> "new", hasData |-> FALSE, files |-> <<>>]

\* The backups: whether flags.backupPath is given, whether it holds a bolt
\* file, and the files whose path contains ".tsm", in the order
\* filepath.Walk visits them, each with its directory below the backup
\* path, its base name and its content.
Backups ==
    { [path |-> FALSE, bolt |-> FALSE, tsm |-> <<>>],
      [path |-> TRUE, bolt |-> FALSE, tsm |-> <<>>],
      [path |-> TRUE, bolt |-> TRUE, tsm |-> <<>>],
      [path |-> TRUE, bolt |-> TRUE,
       tsm |-> <<[dir |-> "", base |-> "1.tsm", content |-> "c1"],
                 [dir |-> "", base |-> "2.tsm", content |-> "c2"]>>],
      [path |-> TRUE, bolt |-> TRUE,
       tsm |-> <<[dir |-> "a", base |-> "1.tsm", content |-> "c1"],
                 [dir |-> "b", base |-> "1.tsm", content |-> "c2"]>>] }

InitRestore ==
    /\ InitServer
    /\ bf = NoBackfill
    /\ flight = NoFlight
    /\ ui = NoUI
    /\ disk \in { [pc |-> "idle", runs |-> 0, ret |-> "", restored |-> FALSE,
                    hadBolt |-> b # Absent, hadEngine |-> e # AbsentDir,
                    bolt |-> b, boltTmp |-> bt, engine |-> e, engineTmp |-> et,
                    backup |-> bk, rebuildTSI |-> rb, rebuild |-> "",
                    steps |-> <<>>, sys |-> "ok", err |-> ""] :
                      b \in {Absent, "orig"}, bt \in {Absent, "stale"},
                      e \in {AbsentDir, OrigEngine}, et \in {AbsentDir, StaleDir},
                      bk \in Backups, rb \in BOOLEAN }

\* A step of the command changes the files only.
Files(d) ==
    /\ disk' = d
    /\ UNCHANGED <<store, mappings, nextID, now, op, resp, calls, cne, cres, sent, bf,
                   flight, ui>>

\* The error restoreE returns when the step fails.
ErrorOf(step) ==
    CASE step = "moveBolt" -> "failed to move existing bolt file"
      [] step = "moveEngine" -> "failed to move existing engine data"
      [] step = "restoreBolt" -> "failed to restore bolt file"
      [] step = "restoreEngine" -> "failed to restore all TSM files"
      [] step = "removeTmpBolt" ->
            "restore completed, but failed to cleanup temporary bolt file"
      [] step = "removeTmpEngine" ->
            "restore completed, but failed to cleanup temporary engine data"
      [] OTHER -> "no backup path given"

\* restoreE returns an error: the run is over, the files stay as they are.
Failed(d) == [d EXCEPT !.pc = "idle", !.ret = "failed", !.err = ErrorOf(d.pc)]

\* A function restoreE calls has run, its system calls with the outcome o,
\* and has left d.
Step(o, d) ==
    Files([d EXCEPT !.steps = Append(@, disk.pc),
                    !.sys = IF d.ret = "failed" THEN o ELSE "ok"])

\* The outcomes of the system calls of one function.
Outcomes == {"ok", "stat fails", "remove fails", "rename fails", "mkdir fails"}

\* restoreE up to the call of moveBolt.
StartRun ==
    /\ disk.pc = "idle"
    /\ disk.runs < MaxRuns
    /\ LET d == [disk EXCEPT !.runs = @ + 1, !.steps = <<>>, !.sys = "ok", !.err = "",
                              !.rebuild = ""]
       IN  Files(IF ~disk.backup.path
                 THEN Failed(d)
                 ELSE [d EXCEPT !.ret = "", !.pc = "moveBolt"])

\* moveBolt that returns nil with the file still at the bolt path.
MoveBoltLeavesFile ==
    /\ disk.pc = "moveBolt"
    /\ Step("ok", [disk EXCEPT !.pc = "moveEngine"])

\* moveBolt
MoveBolt ==
    /\ disk.pc = "moveBolt"
    /\ \E o \in Outcomes \ {"mkdir fails"} :
          Step(o, CASE o = "stat fails" -> Failed(disk)
                  [] o = "ok" /\ disk.bolt = Absent -> [disk EXCEPT !.pc = "moveEngine"]
                  [] o = "remove fails" \/ disk.bolt = Absent -> Failed(disk)
                  [] o = "rename fails" -> Failed([disk EXCEPT !.boltTmp = Absent])
                  [] OTHER -> [disk EXCEPT !.boltTmp = disk.bolt, !.bolt = Absent,
                                           !.pc = "moveEngine"])

\* moveEngine
MoveEngine ==
    /\ disk.pc = "moveEngine"
    /\ \E o \in Outcomes :
          Step(o, CASE o = "stat fails" -> Failed(disk)
                  [] o = "ok" /\ disk.engine = AbsentDir -> [disk EXCEPT !.pc = "restoreBolt"]
                  [] o = "remove fails" \/ disk.engine = AbsentDir -> Failed(disk)
                  [] o = "rename fails" -> Failed([disk EXCEPT !.engineTmp = AbsentDir])
                  [] o = "mkdir fails" ->
                        Failed([disk EXCEPT !.engineTmp = disk.engine, !.engine = AbsentDir])
                  [] OTHER -> [disk EXCEPT !.engineTmp = disk.engine, !.engine = NewDir,
                                           !.pc = "restoreBolt"])

\* restoreBolt: the backup's bolt file is opened, the bolt path is created
\* or truncated, the content is copied.
RestoreBolt ==
    /\ disk.pc = "restoreBolt"
    /\ \E o \in {"ok", "open fails", "copy fails"} :
          Step(o, CASE ~disk.backup.bolt \/ o = "open fails" -> Failed(disk)
                  [] o = "copy fails" -> Failed([disk EXCEPT !.bolt = "partial"])
                  [] OTHER -> [disk EXCEPT !.bolt = "backup", !.pc = "restoreEngine"])

RECURSIVE CopyTSM(_, _, _)
\* The walk function of restoreEngine over the first n files it visits:
\* each is written under its base name in the data directory.
CopyTSM(files, visited, n) ==
    IF n = 0 THEN files
    ELSE (visited[n].base :> visited[n].content) @@ CopyTSM(files, visited, n - 1)

\* restoreEngine, and the branch of restoreE on flags.rebuildTSI.
\* The walk function returns nil for a directory that cannot be read, so
\* the walk goes on without the files below it.
RestoreEngine ==
    /\ disk.pc = "restoreEngine"
    /\ \E o \in {"ok", "mkdir fails", "copy fails"},
          unreadable \in SUBSET ({disk.backup.tsm[i].dir : i \in DOMAIN disk.backup.tsm} \ {""}) :
          LET visited == SelectSeq(disk.backup.tsm, LAMBDA t : t.dir \notin unreadable)
          IN  \E k \in 1 .. Len(visited) + 1 :
                Step(o, CASE o = "mkdir fails" \/ disk.engine = AbsentDir \/ disk.engine.hasData ->
                             Failed(disk)
                        [] o = "copy fails" /\ k <= Len(visited) ->
                             Failed([disk EXCEPT !.engine.hasData = TRUE,
                                       !.engine.files =
                                           (visited[k].base :> "partial")
                                               @@ CopyTSM(<<>>, visited, k - 1)])
                        [] OTHER ->
                             [disk EXCEPT !.engine.hasData = TRUE,
                                !.engine.files = CopyTSM(<<>>, visited, Len(visited)),
                                !.restored = TRUE,
                                !.pc = IF disk.rebuildTSI THEN "rebuildTSI"
                                       ELSE "removeTmpBolt"])

\* The index and series file rebuild: restoreE calls rebuild.Execute() and
\* goes on without looking at the error it returns.
RebuildTSI ==
    /\ disk.pc = "rebuildTSI"
    /\ \E o \in {"ok", "rebuild fails"} :
          Step("ok", [disk EXCEPT !.rebuild = IF o = "ok" THEN "ok" ELSE "failed",
                                  !.pc = "removeTmpBolt"])

\* removeTmpBolt, called by restoreE
RemoveTmpBolt ==
    /\ disk.pc = "removeTmpBolt"
    /\ \E o \in {"ok", "remove fails"} :
          Step(o, IF o = "ok" THEN [disk EXCEPT !.boltTmp = Absent, !.pc = "removeTmpEngine"]
                ELSE Failed(disk))

\* removeTmpEngine, called by restoreE, and the return of restoreE
RemoveTmpEngine ==
    /\ disk.pc = "removeTmpEngine"
    /\ \E o \in {"ok", "remove fails"} :
          Step(o, IF o = "ok"
                THEN [disk EXCEPT !.engineTmp = AbsentDir, !.pc = "idle", !.ret = "ok"]
                ELSE Failed(disk))

NextRestore ==
    \/ StartRun
    \/ MoveBolt
    \/ MoveEngine
    \/ RestoreBolt
    \/ RestoreEngine
    \/ RebuildTSI
    \/ RemoveTmpBolt
    \/ RemoveTmpEngine

SpecRestore == InitRestore /\ [][NextRestore]_vars

----------------------------------------------------------------------------
(* The filter of Find: the query the client's Find builds from a filter    *)
(* and the filter the list handler decodes from a query.                   *)

\* influxdb.IDFromString on a query value.
QueryID(v) ==
    IF \E i \in 1 .. Len(IDNames) : IDNames[i] = v
    THEN [err |-> "", id |-> CHOOSE i \in 1 .. Len(IDNames) : IDNames[i] = v]
    ELSE [err |-> EInvalid, id |-> 0]

\* The values a query parameter can have; "" is the parameter left out.
QueryValues ==
    [orgID |-> {"", "zz"} \cup {IDString(i) : i \in IDs},
     org |-> {"", "myorg"},
     user |-> {"", "zz", IDString(1)},
     limit |-> {"", "5", "bad"},
     offset |-> {"", "1"}]

Queries ==
    { [orgID |-> a, org |-> b, user |-> c, limit |-> d, offset |-> e] :
        a \in QueryValues.orgID, b \in QueryValues.org, c \in QueryValues.user,
        d \in QueryValues.limit, e \in QueryValues.offset }

NoQuery == [orgID |-> "", org |-> "", user |-> "", limit |-> "", offset |-> ""]

\* The NotificationEndpointFilter the decoder starts from: OrgID and Org are
\* nil pointers, UserID is the zero ID.
EmptyFilter == [OrgID |-> Nil, Org |-> Nil, UserID |-> 0]

\* The filters a caller of the client's Find passes.
ClientFilters ==
    { [EmptyFilter EXCEPT !.OrgID = a, !.Org = b] :
        a \in {Nil} \cup {IDString(i) : i \in IDs}, b \in {Nil, "myorg"} }

NoFilterOut == [fn |-> "", err |-> "", crash |-> FALSE, filter |-> EmptyFilter]

\* decodeFindOptions
decodeFindOptions(q) == IF q.limit \notin {"", "5"} THEN EInvalid ELSE ""

\* decodeNotificationEndpointFilter.  The org branch assigns through f.Org,
\* which nothing has allocated: the nil dereference panics.
decodeNotificationEndpointFilter(q) ==
    LET org == QueryID(q.orgID)
        user == QueryID(q.user)
        f1 == IF q.orgID # "" THEN [EmptyFilter EXCEPT !.OrgID = q.orgID] ELSE EmptyFilter
        bad(e) == [fn |-> "decodeFilter", err |-> e, crash |-> FALSE, filter |-> EmptyFilter]
    IN  IF decodeFindOptions(q) # "" THEN bad(decodeFindOptions(q))
        ELSE IF q.orgID # "" /\ org.err # "" THEN bad(EInvalid)
        ELSE IF q.orgID = "" /\ q.org # ""
        THEN [fn |-> "decodeFilter", err |-> "", crash |-> TRUE, filter |-> EmptyFilter]
        ELSE IF q.user # "" /\ user.err # "" THEN bad(user.err)
        ELSE [fn |-> "decodeFilter", err |-> "", crash |-> FALSE,
              filter |-> [f1 EXCEPT !.UserID = IF q.user # "" THEN user.id ELSE 0]]

\* The query parameters NotificationEndpointService.Find sends for a filter.
FindParams(f) ==
    [NoQuery EXCEPT !.orgID = IF f.OrgID # Nil THEN f.OrgID ELSE "",
                    !.org = IF f.Org # Nil THEN f.Org ELSE ""]

InitFilter ==
    /\ InitServer
    /\ Alone
    /\ bf \in { [from |-> "request", filter |-> EmptyFilter, wire |-> q, sent |-> TRUE,
                  out |-> NoFilterOut] : q \in Queries }
           \cup { [from |-> "client", filter |-> f, wire |-> NoQuery, sent |-> FALSE,
                    out |-> NoFilterOut] : f \in ClientFilters }

\* NotificationEndpointService.Find up to the request it sends.
CallFind ==
    /\ bf.from = "client" /\ ~bf.sent
    /\ bf' = [bf EXCEPT !.wire = FindParams(bf.filter), !.sent = TRUE]
    /\ UNCHANGED <<store, mappings, nextID, now, op, resp, calls, cne, cres, sent,
                   flight, disk, ui>>

\* handleGetNotificationEndpoints up to the return of its decoder.
CallDecodeFilter ==
    /\ bf.sent /\ bf.out.fn = ""
    /\ bf' = [bf EXCEPT !.out = decodeNotificationEndpointFilter(bf.wire)]
    /\ UNCHANGED <<store, mappings, nextID, now, op, resp, calls, cne, cres, sent,
                   flight, disk, ui>>

NextFilter ==
    \/ CallFind
    \/ CallDecodeFilter

SpecFilter == InitFilter /\ [][NextFilter]_vars

----------------------------------------------------------------------------
(* The null dialect's encoder, NullEncoder.Encode of query: a result       *)
(* iterator is a sequence of results, a result a sequence of tables, a     *)
(* table hands a number of column readers to the function it is given and  *)
(* then returns its error, if it has one.                                  *)

MaxResults == 2
MaxTables == 2

\* The tables: the number of column readers and the error of Table.Do.
Tables ==
    { [crs |-> 2, err |-> ""], [crs |-> 1, err |-> "e1"], [crs |-> 0, err |-> "e2"] }

SeqsUpTo(S, n) == UNION { [1 .. k -> S] : k \in 0 .. n }

\* The result iterators.
ResultIterators == SeqsUpTo(SeqsUpTo(Tables, MaxTables), MaxResults)

\* What w.Write does with the bytes: the count and the error it returns.
Writers ==
    { [n |-> 4, err |-> ""], [n |-> 2, err |-> "short write"],
      [n |-> 0, err |-> "closed"] }

\* Nothing has been read, released or written.
NoEncodeOut ==
    [done |-> FALSE, n |-> 0, err |-> "", writes |-> <<>>, results |-> 0, tables |-> 0,
     received |-> 0, released |-> 0, iterReleased |-> 0]

\* tbl.Do(func(cr) { cr.Release(); return nil })
TableDo(tbl, a) ==
    [a EXCEPT !.tables = @ + 1, !.received = @ + tbl.crs, !.released = @ + tbl.crs,
              !.err = tbl.err]

RECURSIVE TablesDo(_, _, _)
\* results.Next().Tables().Do(...) from table i on: it stops at the first
\* table whose function returns an error.
TablesDo(tables, i, a) ==
    IF i > Len(tables) \/ a.err # "" THEN a
    ELSE TablesDo(tables, i + 1, TableDo(tables[i], a))

RECURSIVE Consume(_, _, _)
\* The loop of Encode from result i on.
Consume(results, i, a) ==
    IF i > Len(results) \/ a.err # "" THEN a
    ELSE Consume(results, i + 1, TablesDo(results[i], 1, [a EXCEPT !.results = @ + 1]))

\* Encode that writes although a table returned an error.
EncodeWritesAfterError(w, results) ==
    LET a == Consume(results, 1, NoEncodeOut)
    IN  [a EXCEPT !.done = TRUE, !.iterReleased = @ + 1, !.n = w.n,
                  !.writes = <<"null">>]

\* NullEncoder.Encode
Encode(w, results) ==
    LET a == Consume(results, 1, NoEncodeOut)
    IN  IF a.err # ""
        THEN [a EXCEPT !.done = TRUE, !.iterReleased = @ + 1, !.n = 0]
        ELSE [a EXCEPT !.done = TRUE, !.iterReleased = @ + 1, !.n = w.n, !.err = w.err,
                       !.writes = <<"null">>]

InitEncode ==
    /\ InitServer
    /\ Alone
    /\ bf \in { [w |-> w, results |-> r, out |-> NoEncodeOut] :
                   w \in Writers, r \in ResultIterators }

CallEncode ==
    /\ ~bf.out.done
    /\ bf' = [bf EXCEPT !.out = Encode(bf.w, bf.results)]
    /\ UNCHANGED <<store, mappings, nextID, now, op, resp, calls, cne, cres, sent,
                   flight, disk, ui>>

NextEncode == CallEncode

SpecEncode == InitEncode /\ [][NextEncode]_vars

----------------------------------------------------------------------------
(* The template actions of the UI.  An action creator gives a thunk; the   *)
(* thunk runs up to its first await when it is dispatched and goes on when *)
(* the API call returns or throws.  ui holds the templates state of the    *)
(* store, the thunk that runs, and the actions that thunk has dispatched.  *)

\* RemoteDataState
NotStarted == "NotStarted"
Loading == "Loading"
Done == "Done"
Error == "Error"

TemplateIDs == {"t1", "t2"}

\* What api.getDocumentsTemplates answers: summaries by template id.
Fetched == { ("t1" :> "s1"), ("t1" :> "s1") @@ ("t2" :> "s1") }

\* The action creators of the module.
setTemplatesStatus(status) ==
    [type |-> "SET_TEMPLATES_STATUS", id |-> "", item |-> "", items |-> <<>>,
     status |-> status]
populateTemplateSummaries(items) ==
    [type |-> "POPULATE_TEMPLATE_SUMMARIES", id |-> "", item |-> "", items |-> items,
     status |-> Done]
addTemplateSummary(id, item) ==
    [type |-> "ADD_TEMPLATE_SUMMARY", id |-> id, item |-> item, items |-> <<>>,
     status |-> ""]
setTemplateSummary(id, item) ==
    [type |-> "SET_TEMPLATE_SUMMARY", id |-> id, item |-> item, items |-> <<>>,
     status |-> ""]
removeTemplateSummary(id) ==
    [type |-> "REMOVE_TEMPLATE_SUMMARY", id |-> id, item |-> "", items |-> <<>>,
     status |-> ""]
setExportTemplate(status) ==
    [type |-> "SET_EXPORT_TEMPLATE", id |-> "", item |-> "", items |-> <<>>,
     status |-> status]

\* notify of shared/actions/notifications: the action that publishes the
\* notification.
notify(notification) ==
    [type |-> "PUBLISH_NOTIFICATION", id |-> "", item |-> notification, items |-> <<>>,
     status |-> ""]

\* A notification of shared/copy/notifications handed to dispatch as it
\* is: an object that is no action of the store.
Bare(notification) ==
    [type |-> "", id |-> "", item |-> notification, items |-> <<>>, status |-> ""]

\* The templates reducer.
Reduce(u, a) ==
    CASE a.type = "SET_TEMPLATES_STATUS" -> [u EXCEPT !.status = a.status]
      [] a.type = "POPULATE_TEMPLATE_SUMMARIES" ->
            [u EXCEPT !.status = a.status, !.items = a.items]
      [] a.type = "ADD_TEMPLATE_SUMMARY" ->
            [u EXCEPT !.items = (a.id :> a.item) @@ @]
      [] a.type = "SET_TEMPLATE_SUMMARY" ->
            [u EXCEPT !.items = [t \in DOMAIN @ |-> IF t = a.id THEN a.item ELSE @[t]]]
      [] a.type = "REMOVE_TEMPLATE_SUMMARY" ->
            [u EXCEPT !.items = [t \in DOMAIN @ \ {a.id} |-> @[t]]]
      [] a.type = "SET_EXPORT_TEMPLATE" -> [u EXCEPT !.export = a.status]
      [] OTHER -> u

\* dispatch(a) in the thunk that runs.
Dispatch(u, a) == [Reduce(u, a) EXCEPT !.log = Append(@, a)]

\* The thunk of the action creator act is called with the argument id.
Thunk(u, act, id) ==
    [u EXCEPT !.act = act, !.id = id, !.pc = "await", !.log = <<>>, !.threw = FALSE,
              !.result = ""]

\* The thunk returns, and its promise resolves.
Resolved(u) == [u EXCEPT !.pc = "idle", !.result = "resolved"]

\* An await of the thunk throws outside any try: its promise rejects.
Rejected(u) == [u EXCEPT !.pc = "idle", !.result = "rejected", !.threw = TRUE]

\* The API call of a try block threw: the catch block dispatches a.
Caught(u, a) == Resolved(Dispatch([u EXCEPT !.threw = TRUE], a))

InitTemplates ==
    /\ InitServer
    /\ bf = NoBackfill
    /\ flight = NoFlight
    /\ disk = NoDisk
    /\ ui = [status |-> NotStarted, items |-> <<>>, export |-> NotStarted,
             act |-> "", id |-> "", pc |-> "idle", log |-> <<>>, threw |-> FALSE,
             result |-> ""]

\* A step of the UI changes its state only.
UI(u) ==
    /\ ui' = u
    /\ UNCHANGED <<store, mappings, nextID, now, op, resp, calls, cne, cres, sent, bf,
                   flight, disk>>

\* getTemplates up to its await
getTemplates ==
    /\ ui.pc = "idle"
    /\ UI(Dispatch(Thunk(ui, "getTemplates", ""), setTemplatesStatus(Loading)))

\* getTemplates from its await on
getTemplatesReturns(u, ok, items) ==
    IF ok THEN Resolved(Dispatch(u, populateTemplateSummaries(items)))
    ELSE Rejected(u)

\* createTemplate up to its await
createTemplate ==
    /\ ui.pc = "idle"
    /\ UI(Thunk(ui, "createTemplate", ""))

createTemplateReturns(u, ok) ==
    IF ok THEN Resolved(Dispatch(u, notify("importTemplateSucceeded")))
    ELSE Caught(u, notify("importTemplateFailed"))

\* createTemplateFromResource up to its await
createTemplateFromResource ==
    /\ ui.pc = "idle"
    /\ UI(Thunk(ui, "createTemplateFromResource", ""))

createTemplateFromResourceReturns(u, ok) ==
    IF ok THEN Resolved(Dispatch(u, notify("resourceSavedAsTemplate")))
    ELSE Caught(u, Bare("saveResourceAsTemplateFailed"))

\* updateTemplate up to its await
updateTemplate ==
    /\ ui.pc = "idle"
    /\ \E id \in TemplateIDs : UI(Thunk(ui, "updateTemplate", id))

updateTemplateReturns(u, ok) ==
    IF ok
    THEN Resolved(Dispatch(Dispatch(u, setTemplateSummary(u.id, "s2")),
                           notify("updateTemplateSucceeded")))
    ELSE Caught(u, notify("updateTemplateFailed"))

\* convertToTemplate up to its await
convertToTemplate ==
    /\ ui.pc = "idle"
    /\ \E id \in TemplateIDs :
          UI(Dispatch(Thunk(ui, "convertToTemplate", id), setExportTemplate(Loading)))

convertToTemplateReturns(u, ok) ==
    IF ok THEN Resolved(Dispatch(u, setExportTemplate(Done)))
    ELSE Caught(Dispatch([u EXCEPT !.threw = TRUE], setExportTemplate(Error)),
                notify("createTemplateFailed"))

\* deleteTemplate up to its await
deleteTemplate ==
    /\ ui.pc = "idle"
    /\ \E id \in TemplateIDs : UI(Thunk(ui, "deleteTemplate", id))

deleteTemplateReturns(u, ok) ==
    IF ok
    THEN Resolved(Dispatch(Dispatch(u, removeTemplateSummary(u.id)),
                           notify("deleteTemplateSuccess")))
    ELSE Caught(u, notify("deleteTemplateFailed"))

\* cloneTemplate up to its await
cloneTemplate ==
    /\ ui.pc = "idle"
    /\ \E id \in TemplateIDs : UI(Thunk(ui, "cloneTemplate", id))

cloneTemplateReturns(u, ok) ==
    IF ok
    THEN Resolved(Dispatch(Dispatch(u, addTemplateSummary("t2", "s1")),
                           notify("cloneTemplateSuccess")))
    ELSE Caught(u, notify("cloneTemplateFailed"))

\* addTemplateLabelsAsync up to its first await
addTemplateLabelsAsync ==
    /\ ui.pc = "idle"
    /\ \E id \in TemplateIDs : UI(Thunk(ui, "addTemplateLabelsAsync", id))

\* removeTemplateLabelsAsync up to its first await
removeTemplateLabelsAsync ==
    /\ ui.pc = "idle"
    /\ \E id \in TemplateIDs : UI(Thunk(ui, "removeTemplateLabelsAsync", id))

\* add- and removeTemplateLabelsAsync from an await on: the labels are
\* changed, then the template is fetched and its summary set.
templateLabelsReturns(u, ok, item, failure) ==
    IF ~ok THEN Caught(u, notify(failure))
    ELSE IF u.pc = "await" THEN [u EXCEPT !.pc = "await2"]
    ELSE Resolved(Dispatch(u, setTemplateSummary(u.id, item)))

\* The API call the thunk awaits returns (ok) or throws.
ApiReturns ==
    /\ ui.pc \in {"await", "await2"}
    /\ \E ok \in BOOLEAN, items \in Fetched :
          UI(CASE ui.act = "getTemplates" -> getTemplatesReturns(ui, ok, items)
               [] ui.act = "createTemplate" -> createTemplateReturns(ui, ok)
               [] ui.act = "createTemplateFromResource" ->
                     createTemplateFromResourceReturns(ui, ok)
               [] ui.act = "updateTemplate" -> updateTemplateReturns(ui, ok)
               [] ui.act = "convertToTemplate" -> convertToTemplateReturns(ui, ok)
               [] ui.act = "deleteTemplate" -> deleteTemplateReturns(ui, ok)
               [] ui.act = "cloneTemplate" -> cloneTemplateReturns(ui, ok)
               [] ui.act = "addTemplateLabelsAsync" ->
                     templateLabelsReturns(ui, ok, "labelled", "addTemplateLabelFailed")
               [] OTHER ->
                     templateLabelsReturns(ui, ok, "s1", "removeTemplateLabelFailed"))

NextTemplates ==
    \/ getTemplates
    \/ createTemplate
    \/ createTemplateFromResource
    \/ updateTemplate
    \/ convertToTemplate
    \/ deleteTemplate
    \/ cloneTemplate
    \/ addTemplateLabelsAsync
    \/ removeTemplateLabelsAsync
    \/ ApiReturns

SpecTemplates == InitTemplates /\ [][NextTemplates]_vars

----------------------------------------------------------------------------
(* Properties *)

\* The fields of an encoded endpoint that hold text.
TextFields ==
    {"", "name", "description", "status", "url", "type", "token", "username",
     "password", "routingKey"}

\* The text v stands somewhere in the JSON object j.
Contains(j, v) == \E g \in DOMAIN j \cap TextFields : j[g] = v

\* C1: a response body that encodes an endpoint never contains the plaintext
\* a secret field of that endpoint held: under the field's public name the
\* body has "" when the field has no key and "secret: " + key when it has
\* one.  The endpoints that hold plaintext when a handler encodes them are
\* the ones decoded from a POST or PUT body; the second conjunct encodes a
\* response for the endpoints a caller constructs (values without keys),
\* the caller's object as the client's calls leave it, and the stored ones.
C1_ResponseRedactsSecrets ==
    /\ (Request.method \in {"POST", "PUT"} /\ resp.status \in {200, 201}) =>
          LET P == UnmarshalJSON(Request.body).edp
          IN  \A f \in DOMAIN P.Secrets :
                 P.Secrets[f].Value # Nil =>
                    /\ ~Contains(resp.body, P.Secrets[f].Value)
                    /\ resp.body[f] = SecretFieldString(store[resp.body.id].Secrets[f])
                    /\ resp.body[f] # ""
    /\ \A e \in ClientObjects \cup {cne} \cup Range(store) :
          IsEndpoint(e) =>
             LET j == newNotificationEndpointResponse(e, <<>>)
             IN  \A f \in DOMAIN e.Secrets :
                    /\ e.Secrets[f].Value # Nil => ~Contains(j, e.Secrets[f].Value)
                    /\ j[f] = IF e.Secrets[f].Key = "" THEN ""
                              ELSE SecretPrefix \o e.Secrets[f].Key

\* A POST whose body carried the plaintext "v1" was answered 201 with the
\* reference to the derived key in its place.
C1_Witness ==
    /\ op.kind = "POST" /\ resp.status = 201
    /\ Get(op.body, "token", "") = "v1"
    /\ resp.body.token = "secret: 01-token"

\* C2: for every valid endpoint V, decoding what the encoder makes of V
\* gives V's type, base fields and secret keys.  V ranges over the objects
\* the client's caller holds; Encode is the client's encoder.
C2_RoundTripPreservesKeys ==
    (IsEndpoint(cne) /\ Valid(cne)) =>
        LET dec == DecoderUnmarshalJSON(EncoderMarshalJSON(cne).json)
        IN  /\ dec.err = ""
            /\ dec.edp.Type = cne.Type
            /\ dec.edp.ID = cne.ID /\ dec.edp.OrgID = cne.OrgID
            /\ dec.edp.Name = cne.Name /\ dec.edp.Description = cne.Description
            /\ dec.edp.Status = cne.Status
            /\ dec.edp.CreatedAt = cne.CreatedAt /\ dec.edp.UpdatedAt = cne.UpdatedAt
            /\ \A f \in DOMAIN cne.Secrets : dec.edp.Secrets[f].Key = cne.Secrets[f].Key

\* The operation o is a change-set update that specifies only name.
NameOnly(o) ==
    \/ o.kind = "PATCH" /\ DOMAIN o.body = {"name"}
    \/ /\ o.kind = "Update" /\ o.update.UpdateType = "change_set"
       /\ o.update.upd.Name # Nil
       /\ o.update.upd.Description = Nil /\ o.update.upd.Status = Nil

NewName(o) == IF o.kind = "PATCH" THEN o.body.name ELSE o.update.upd.Name

\* C3: a change-set update that specifies only name, through the PATCH
\* handler or through the client's Update, on a stored endpoint E, with
\* the collaborators answering, yields E
\* with the new name and the update's timestamp and nothing else changed.
C3_NameOnlyChangeSet ==
    [][ (NameOnly(op') /\ Exists(Srv, op'.id) /\ op'.fault = NoFault) =>
           /\ store'[op'.id] = [store[op'.id] EXCEPT !.Name = NewName(op'),
                                                     !.UpdatedAt = now]
           /\ resp'.status = 200
           /\ resp'.body.name = NewName(op')
           /\ resp'.body.url = store[op'.id].URL
           /\ op'.kind = "Update" => cres'.err = "" ]_vars

\* C4: a full replace with a valid payload P addressed to a stored endpoint
\* E, with the collaborators answering, succeeds, and the updated endpoint carries P's type and
\* variant-specific fields, E's createdAt whatever createdAt P carries, and
\* the update's timestamp as updatedAt, in persistence and in the response.
C4_FullReplace ==
    [][ LET req == RequestOf(op', sent')
            P == UnmarshalJSON(req.body)
        IN  (req.method = "PUT" /\ Exists(Srv, req.id) /\ P.err = "" /\ Valid(P.edp)
                /\ op'.fault = NoFault) =>
               /\ resp'.status = 200
               /\ store'[req.id].Type = P.edp.Type
               /\ store'[req.id].URL = P.edp.URL
               /\ DOMAIN store'[req.id].Secrets = DOMAIN P.edp.Secrets
               /\ store'[req.id].CreatedAt = store[req.id].CreatedAt
               /\ store'[req.id].UpdatedAt = now
               /\ resp'.body.type = P.edp.Type
               /\ resp'.body.url = P.edp.URL
               /\ resp'.body.createdAt = store[req.id].CreatedAt
               /\ resp'.body.updatedAt = now ]_vars

\* A PUT whose body carried createdAt 9 replaced the endpoint created at 1:
\* the result has the payload's url, createdAt 1 and updatedAt 2.
C4_Witness ==
    /\ Request.method = "PUT" /\ resp.status = 200
    /\ Get(Request.body, "createdAt", 0) = 9
    /\ resp.body.url = "u2"
    /\ resp.body.createdAt = 1 /\ resp.body.updatedAt = 2
    /\ store[Request.id].CreatedAt = 1 /\ store[Request.id].UpdatedAt = 2

\* C5: however many times BackfillSecretKeys has been called on an
\* endpoint, the endpoint is as it was after the first call; a key that was
\* non-empty before the calls is the same after them, and a field that
\* holds no value has the key it had; a field with a value and no key has
\* the derived key.
C5_BackfillIdempotent ==
    bf.n >= 1 =>
        /\ bf.e = bf.e1
        /\ \A f \in DOMAIN bf.e0.Secrets :
              /\ bf.e.Secrets[f].Key = bf.e1.Secrets[f].Key
              /\ bf.e0.Secrets[f].Key # "" => bf.e.Secrets[f].Key = bf.e0.Secrets[f].Key
              /\ bf.e0.Secrets[f].Value = Nil =>
                    bf.e.Secrets[f].Key = bf.e0.Secrets[f].Key
              /\ (bf.e0.Secrets[f].Key = "" /\ bf.e0.Secrets[f].Value # Nil) =>
                    bf.e.Secrets[f].Key = IDString(bf.e0.ID) \o Suffix(f)
              /\ bf.e.Secrets[f].Value = bf.e0.Secrets[f].Value

\* Three calls on an HTTP endpoint whose username had a value and no key and
\* whose password had the key k1: the username's key is derived, the
\* password's key is still k1.
C5_Witness ==
    /\ bf.n = MaxCalls /\ bf.e0.Type = HTTPType /\ bf.e0.ID = 1
    /\ bf.e0.Secrets["username"] = [Key |-> "", Value |-> "v1"]
    /\ bf.e0.Secrets["password"] = [Key |-> "k1", Value |-> "v2"]
    /\ bf.e.Secrets["username"].Key = "01-username"
    /\ bf.e.Secrets["password"].Key = "k1"

\* C6: after Create, through the POST handler and through the client's
\* Create, every secret field of the endpoint that holds a value has the
\* key <assigned id>-<suffix>: in persistence and in the response of the
\* handler, and on the object the client's caller passed.
C6_CreateDerivesKeys ==
    /\ (op.kind = "POST" /\ resp.status = 201) =>
          LET P == UnmarshalJSON(op.body).edp
              id == resp.body.id
          IN  \A f \in DOMAIN P.Secrets :
                 P.Secrets[f].Value # Nil =>
                    /\ store[id].Secrets[f].Key = IDString(id) \o Suffix(f)
                    /\ resp.body[f] = SecretPrefix \o (IDString(id) \o Suffix(f))
    /\ (op.kind = "Create" /\ cres.err = "") =>
          /\ cne.ID \in IDs
          /\ \A f \in DOMAIN cne.Secrets :
                cne.Secrets[f].Value # Nil =>
                   cne.Secrets[f].Key = IDString(cne.ID) \o Suffix(f)

\* C7: while an endpoint is stored under an identifier, a secret key of it
\* that is non-empty stays the same string in every step, whatever
\* operation the step is.
C7_KeyImmutable ==
    [][ \A id \in IDs :
           (Exists(Srv, id) /\ IsEndpoint(store'[id])) =>
              \A f \in DOMAIN store[id].Secrets \cap DOMAIN store'[id].Secrets :
                 store[id].Secrets[f].Key # "" =>
                    store'[id].Secrets[f].Key = store[id].Secrets[f].Key ]_vars

\* C8: a POST or PUT whose body has a type outside the known variants is
\* answered with the client error of a failed decode; the handler calls no
\* collaborator, and the stored endpoints, the label mappings and the
\* identifier generator are as before.
C8_UnknownTypeRejected ==
    [][ LET req == RequestOf(op', sent')
        IN  (req.method \in {"POST", "PUT"} /\ Get(req.body, "type", "") \notin KnownTypes) =>
               /\ resp'.status = 400 /\ resp'.body.code = EInvalid
               /\ calls' = <<>>
               /\ store' = store /\ mappings' = mappings /\ nextID' = nextID ]_vars

\* A POST with labels and the type "bogus", made while an endpoint is
\* stored, was answered 400 without a collaborator call.
C8_Witness ==
    /\ op.kind = "POST" /\ op.authed
    /\ Get(op.body, "type", "") = "bogus" /\ Get(op.body, "labels", <<>>) # <<>>
    /\ resp.status = 400 /\ calls = <<>>
    /\ \E id \in IDs : Exists(Srv, id)

\* C9: the client's Update sends one PUT to the update's endpoint for an
\* update of type "endpoint", one PATCH for an update of type "change_set",
\* and for any other type returns the invalid-request error, sends nothing
\* and leaves the server as it was.
C9_UpdateRouting ==
    [][ op'.kind = "Update" =>
           /\ op'.update.UpdateType = "endpoint" =>
                 /\ Len(sent') = 1 /\ sent'[1].method = "PUT"
                 /\ sent'[1].id = op'.update.ID
                 /\ sent'[1].body.url = op'.update.edp.URL
           /\ op'.update.UpdateType = "change_set" =>
                 Len(sent') = 1 /\ sent'[1].method = "PATCH"
           /\ op'.update.UpdateType \notin {"endpoint", "change_set"} =>
                 /\ cres'.err = EInvalid /\ cres'.edp = NoEndpoint
                 /\ sent' = <<>> /\ calls' = <<>>
                 /\ store' = store /\ mappings' = mappings ]_vars

\* An update of another type addressed to a stored endpoint was refused
\* without a request.
C9_Witness ==
    /\ op.kind = "Update" /\ op.update.UpdateType = "other"
    /\ Exists(Srv, op.id)
    /\ cres.err = EInvalid /\ sent = <<>>

\* The request is well-formed and addressed to an identifier under which
\* nothing is stored.
AddressedAbsent(req, S) ==
    /\ req.id \in IDs /\ ~Exists(S, req.id)
    /\ \/ req.method \in {"GET", "DELETE"}
       \/ req.method = "PUT" /\ decodePutNotificationEndpointRequest(req.id, req.body).err = ""
       \/ req.method = "PATCH"
             /\ decodePatchNotificationEndpointRequest(req.id, req.body).err = ""

\* C10: with the endpoint service answering, a GET, PUT, PATCH or DELETE
\* addressed to an absent identifier is answered 404 after the one service call that found it absent, with no
\* label lookup, and with the stored endpoints and label mappings as
\* before; a DELETE of a stored identifier is answered 204 and the endpoint
\* is gone.
C10_NotFoundNoSideEffects ==
    [][ LET req == RequestOf(op', sent')
        IN  /\ (AddressedAbsent(req, Srv) /\ op'.fault # "endpoints") =>
                  /\ resp'.status = 404 /\ resp'.body.code = ENotFound
                  /\ calls' = <<CASE req.method = "GET" -> "FindByID"
                                  [] req.method = "DELETE" -> "Delete"
                                  [] OTHER -> "Update">>
                  /\ store' = store /\ mappings' = mappings
            /\ (req.method = "DELETE" /\ Exists(Srv, req.id) /\ op'.fault # "endpoints") =>
                  /\ resp'.status = 204
                  /\ ~IsEndpoint(store'[req.id])
                  /\ \A i \in IDs \ {req.id} : store'[i] = store[i] ]_vars

\* A DELETE of an identifier that is absent, made while another endpoint is
\* stored, was answered 404.
C10_Witness ==
    /\ op.kind = "DELETE" /\ op.id \in IDs /\ ~Exists(Srv, op.id)
    /\ resp.status = 404 /\ calls = <<"Delete">>
    /\ \E id \in IDs : Exists(Srv, id)

\* The JSON object b without the field f.
Without(b, f) == [g \in DOMAIN b \ {f} |-> b[g]]

\* C11: a POST answers 201 exactly when the same request without its label
\* list does; when it answers 201 the labels of the response are the
\* entries of the list, in request order, whose id decodes, whose label is
\* found (none while the label service fails) and whose mapping is created, the mappings created are those of
\* these labels to the new endpoint, and the endpoint is stored.
C11_LabelsBestEffort ==
    [][ op'.kind = "POST" =>
           LET L == Get(op'.body, "labels", <<>>)
               ok == IF op'.fault = "labels" THEN <<>>
                     ELSE SelectSeq(L, LAMBDA l : ~AttachFails(l))
               id == resp'.body.id
           IN  /\ resp'.status =
                     handlePostNotificationEndpoint(
                         SrvWith(op'.fault), Without(op'.body, "labels"),
                         op'.authed).status
               /\ resp'.status = 201 =>
                     /\ resp'.body.labels = ok
                     /\ IsEndpoint(store'[id])
                     /\ mappings' = mappings \cup
                           { [LabelID |-> l, ResourceID |-> id,
                              ResourceType |-> NotificationEndpointResourceType] :
                             l \in Range(ok) } ]_vars

\* A POST whose list held an undecodable id, an unknown label and a label
\* that cannot be mapped between two good ones was answered 201 with the
\* two good labels in request order.
C11_Witness ==
    /\ op.kind = "POST" /\ resp.status = 201
    /\ Get(op.body, "labels", <<>>) = <<"l2", "bad", "l9", "l3", "l1">>
    /\ resp.body.labels = <<"l2", "l1">>
    /\ IsEndpoint(store[resp.body.id])

\* C12: a request during which the endpoint service fails is answered with
\* the internal error after the one service call, with nothing changed; a
\* request whose handler asks the label service for the labels of the
\* response while the label service fails is answered with the internal
\* error, and that failed lookup is the handler's last call.
C12_FailuresPropagated ==
    [][ /\ (op'.fault = "endpoints" /\ calls' # <<>>) =>
              /\ resp'.status = 500 /\ resp'.body.code = EInternal
              /\ Len(calls') = 1
              /\ store' = store /\ mappings' = mappings
        /\ (op'.fault = "labels" /\ "FindResourceLabels" \in Range(calls')) =>
              /\ resp'.status = 500 /\ resp'.body.code = EInternal
              /\ calls'[Len(calls')] = "FindResourceLabels"
              /\ \A i \in 1 .. Len(calls') - 1 : calls'[i] # "FindResourceLabels" ]_vars

\* C13: Valid on a slack endpoint returns no error exactly when the name is
\* non-empty, the status is active or inactive, and the URL is present and
\* parses; otherwise it returns the invalid-configuration error.  The call
\* leaves every field of the endpoint as it was, whatever it returns.
C13_SlackValid ==
    [][ (bf'.out.fn = "Valid" /\ bf.e.Type = SlackType) =>
           LET ok == /\ bf.e.Name # ""
                     /\ bf.e.Status \in {Active, Inactive}
                     /\ bf.e.URL # ""
                     /\ bf.e.URL \notin BadURLs
           IN  /\ bf'.out.err = IF ok THEN "" ELSE EInvalid
               /\ bf'.e = bf.e ]_vars

\* Valid was called on a slack endpoint whose base fields pass and whose
\* URL is present but does not parse, and returned the error.
C13_Witness ==
    /\ bf.out.fn = "Valid" /\ bf.out.err = EInvalid
    /\ bf.e.Type = SlackType /\ bf.e.Name = "hello" /\ bf.e.Status = Active
    /\ bf.e.URL = "%zz"

\* C14: SecretFields returns exactly the secret fields of the variant whose
\* key is non-empty, each once, in the variant's declaration order: a field
\* with an empty key is not returned even when it holds a value, a field
\* with a key is returned even when it holds no value.
C14_SecretFieldsKeyed ==
    [][ bf'.out.fn = "SecretFields" =>
           LET names == SecretNames(bf.e.Type)
               keyed == SelectSeq(names, LAMBDA f : bf.e.Secrets[f].Key # "")
               got == bf'.out.fields
           IN  /\ Len(got) = Len(keyed)
               /\ \A i \in 1 .. Len(keyed) : got[i] = bf.e.Secrets[keyed[i]]
               /\ \A f \in Range(names) :
                     /\ bf.e.Secrets[f].Key = "" => bf.e.Secrets[f] \notin Range(got)
                     /\ bf.e.Secrets[f].Key # "" => bf.e.Secrets[f] \in Range(got)
               /\ bf'.e = bf.e ]_vars

\* SecretFields was called on an http endpoint whose username holds a value
\* without a key and whose password holds a key without a value, and
\* returned the password alone.
C14_Witness ==
    /\ bf.out.fn = "SecretFields" /\ bf.e.Type = HTTPType /\ bf.e.ID = 1
    /\ bf.e.Secrets["username"] = [Key |-> "", Value |-> "v1"]
    /\ bf.e.Secrets["password"] = [Key |-> "01-password", Value |-> Nil]
    /\ bf.out.fields = <<[Key |-> "01-password", Value |-> Nil]>>

\* The JSON keys a secret field must not appear under: the empty string,
\* the key suffixes and the internal keys.
InternalNames(e) ==
    {""} \cup {Suffix(f) : f \in DOMAIN e.Secrets}
         \cup {e.Secrets[f].Key : f \in DOMAIN e.Secrets}

\* C15: in what either encoder makes of an endpoint (Slack.MarshalJSON for
\* the server's responses, the client's encoder for the bodies of Create
\* and Update), every secret field that SecretFields lists is a JSON key
\* under its public name, and no JSON key is the empty string, a key
\* suffix or an internal key, whether the identifier is assigned or zero.
C15_SecretsUnderPublicName ==
    [][ bf'.out.fn \in {"Encoder", "MarshalJSON"} =>
           LET j == bf'.out.json
               e == bf'.e
           IN  /\ \A f \in DOMAIN e.Secrets : e.Secrets[f].Key # "" => f \in DOMAIN j
               /\ DOMAIN j \cap InternalNames(e) = {} ]_vars

\* C16: either encoder, called on an endpoint that holds a secret value
\* under an empty key, writes that field as "secret: " + <id>-<suffix>,
\* not as the empty string, and every secret field it writes is the
\* reference of the key the field has after the backfill.
C16_EncodeBackfillsFirst ==
    [][ bf'.out.fn \in {"Encoder", "MarshalJSON"} =>
           LET j == bf'.out.json
               filled == BackfillSecretKeys(bf.e)
           IN  \A f \in DOMAIN bf.e.Secrets :
                  /\ (bf.e.Secrets[f].Key = "" /\ bf.e.Secrets[f].Value # Nil) =>
                        /\ f \in DOMAIN j
                        /\ j[f] = SecretPrefix \o (IDString(bf.e.ID) \o Suffix(f))
                  /\ f \in DOMAIN j /\ j[f] = SecretFieldString(filled.Secrets[f]) ]_vars

\* C17: decoding a JSON object that has a recognized type and any subset of
\* the other fields succeeds, in the POST and PUT handlers' decoders and in
\* the client's decoder; a field the object lacks has its zero value, and
\* every secret field of the decoded endpoint has an empty key and, as its
\* value, what the object carries under the field's public name (no value
\* when it carries nothing there).
C17_DecodeTotalNoWireKey ==
    [][ bf'.out.fn \in {"decodePost", "decodePut", "Decoder"} =>
           LET b == bf.wire
               e == bf'.e
           IN  /\ bf'.out.err = ""
               /\ e.Type = b.type
               /\ bf'.out.fn # "decodePut" => e.ID = Get(b, "id", 0)
               /\ e.Name = Get(b, "name", "")
               /\ e.Description = Get(b, "description", "")
               /\ e.Status = Get(b, "status", "")
               /\ e.URL = Get(b, "url", "")
               /\ e.OrgID = 0 /\ e.CreatedAt = 0 /\ e.UpdatedAt = 0
               /\ DOMAIN e.Secrets = Range(SecretNames(b.type))
               /\ \A f \in DOMAIN e.Secrets :
                     /\ e.Secrets[f].Key = ""
                     /\ e.Secrets[f].Value = IF Get(b, f, "") = "" THEN Nil ELSE b[f] ]_vars

\* The PUT decoder was given an http object that has only the type and a
\* password written as a key reference, and returned an endpoint whose
\* password has that text as its value under an empty key.
C17_Witness ==
    /\ bf.out.fn = "decodePut" /\ bf.out.err = ""
    /\ bf.wire = [type |-> HTTPType, password |-> "secret: k1"]
    /\ bf.e.Name = "" /\ bf.e.URL = ""
    /\ bf.e.Secrets["username"] = NoSecret
    /\ bf.e.Secrets["password"] = [Key |-> "", Value |-> "secret: k1"]

\* The stored endpoints after the updates of the flights i then j, applied
\* one after the other to the server as it was before both.
Serial(i, j) ==
    LET a == SvcUpdate(CreatedSrv, UpdateChangeSet(flight[i].id, flight[i].upd))
        b == SvcUpdate(a.S, UpdateChangeSet(flight[j].id, flight[j].upd))
    IN  b.S.store

\* C18: when two change-set updates of the same stored endpoint overlap,
\* each through the PATCH handler or through the client's Update, with the
\* service's load-mutate-persist as one step, then once both are answered
\* the stored endpoints are what one of the two serial orders leaves, and
\* when the two set different base fields the stored endpoint has both
\* new values.
C18_ConcurrentUpdatesSerializable ==
    (/\ Len(flight) = 2
     /\ flight[1].pc = "done" /\ flight[2].pc = "done"
     /\ flight[1].id = flight[2].id /\ IsEndpoint(CreatedSrv.store[flight[1].id])) =>
        /\ store \in {Serial(1, 2), Serial(2, 1)}
        /\ flight[1].upd # flight[2].upd =>
              LET e == store[flight[1].id]
              IN  \A i \in 1 .. 2 :
                     /\ flight[i].upd.Name # Nil => e.Name = flight[i].upd.Name
                     /\ flight[i].upd.Description # Nil =>
                            e.Description = flight[i].upd.Description
                     /\ flight[i].upd.Status # Nil => e.Status = flight[i].upd.Status

\* The same for requests that reach the PATCH handler directly.
C18_HandlerOnly ==
    (flight # <<>> /\ \A i \in DOMAIN flight : flight[i].via = "handler") =>
        C18_ConcurrentUpdatesSerializable

\* C19: in every sequence of restore runs, failed and retried ones
\* included, as long as no run has restored the bolt file and the engine
\* data (after which the run deletes the moved copies), the bolt file that
\* was there before the first run is at the bolt path or at the temporary
\* bolt path, and the engine directory that was there before the first run
\* is at the engine path or at the temporary engine path.
C19_OriginalsKeptUntilRestored ==
    ~disk.restored =>
        /\ disk.hadBolt => "orig" \in {disk.bolt, disk.boltTmp}
        /\ disk.hadEngine => OrigEngine \in {disk.engine, disk.engineTmp}

\* C20: when a restore run has returned success, the temporary bolt path
\* and the temporary engine path hold nothing, the bolt path holds the
\* content of the backup's bolt file, and the data directory below the
\* engine path holds, for every TSM file of the backup, a file with that
\* file's content.
C20_SuccessfulRunHoldsBackup ==
    (disk.pc = "idle" /\ disk.ret = "ok") =>
        /\ disk.boltTmp = Absent
        /\ disk.engineTmp = AbsentDir
        /\ disk.bolt = "backup"
        /\ disk.engine.hasData
        /\ \A i \in DOMAIN disk.backup.tsm :
              \E n \in DOMAIN disk.engine.files :
                  disk.engine.files[n] = disk.backup.tsm[i].content

\* C21: a PUT that is answered 200 has replaced the endpoint stored under
\* the identifier of the URL path and no other, whatever id the body
\* carries or omits; the endpoint returned and stored has that identifier
\* and the payload's type, url and secret fields, also when the endpoint
\* stored before was of the other variant.
C21_PutTargetsPathID ==
    [][ LET req == RequestOf(op', sent')
            P == UnmarshalJSON(req.body).edp
        IN  (req.method = "PUT" /\ resp'.status = 200) =>
               /\ resp'.body.id = req.id
               /\ store'[req.id].ID = req.id
               /\ \A j \in IDs \ {req.id} : store'[j] = store[j]
               /\ resp'.body.type = P.Type /\ store'[req.id].Type = P.Type
               /\ resp'.body.url = P.URL /\ store'[req.id].URL = P.URL
               /\ DOMAIN store'[req.id].Secrets = Range(SecretNames(P.Type))
               /\ \A f \in Range(SecretNames(P.Type)) : f \in DOMAIN resp'.body
               /\ \A f \in {"token", "username", "password"} \ Range(SecretNames(P.Type)) :
                     f \notin DOMAIN resp'.body ]_vars

\* The client's caller created an http endpoint as 01 and a second
\* endpoint is stored as 02; a PUT to /01 with a slack payload that carries
\* the id 02 was answered 200 with the slack endpoint 01, and the endpoint
\* 02 is as it was created.
C21_Witness ==
    /\ Request.method = "PUT" /\ resp.status = 200
    /\ Request.id = 1 /\ Get(Request.body, "id", 0) = 2
    /\ cne.Type = HTTPType /\ cne.ID = 1
    /\ resp.body.id = 1 /\ resp.body.type = SlackType
    /\ store[1].ID = 1 /\ store[1].Type = SlackType /\ store[1].Name = "example"
    /\ IsEndpoint(store[2]) /\ store[2].ID = 2 /\ store[2].Name = "hello"

\* C22: a PATCH whose path id is invalid, whose body is malformed JSON or
\* whose change-set carries an invalid status is answered with the client
\* error 400; the service's Update is not called (no collaborator is), and
\* the stored endpoints, the label mappings and the clock are as before,
\* whether or not the collaborators would have answered.
C22_InvalidPatchNotCommitted ==
    [][ LET req == RequestOf(op', sent')
        IN  (/\ req.method = "PATCH"
             /\ \/ req.id = 0
                \/ "malformed" \in DOMAIN req.body
                \/ Get(req.body, "status", Active) \notin {Active, Inactive}) =>
               /\ resp'.status = 400 /\ resp'.body.code = EInvalid
               /\ "Update" \notin Range(calls') /\ calls' = <<>>
               /\ store' = store /\ mappings' = mappings /\ now' = now ]_vars

\* A PATCH of a stored endpoint with a status that is neither active nor
\* inactive was answered 400 without a call, and the endpoint still has
\* the status it was created with.
C22_Witness ==
    /\ op.kind = "PATCH" /\ op.id \in IDs /\ Exists(Srv, op.id)
    /\ Get(op.body, "status", "") = "bogus"
    /\ resp.status = 400 /\ calls = <<>>
    /\ store[op.id].Status = Active

\* C23: the list handler's filter decoder returns for every query, also
\* for the one the client's Find builds.  With valid find options: an
\* invalid orgID or user gives an error; otherwise there is no error, a
\* valid orgID is the filter's organization id and no organization name is
\* set, without orgID a non-empty org is the filter's organization name,
\* and a valid user is the filter's user id.  No query makes the decoder
\* crash.
C23_FilterDecodeTotal ==
    bf.out.fn = "decodeFilter" =>
        LET q == bf.wire
            f == bf.out.filter
            invalid == \/ q.orgID # "" /\ QueryID(q.orgID).err # ""
                       \/ q.user # "" /\ QueryID(q.user).err # ""
        IN  /\ ~bf.out.crash
            /\ decodeFindOptions(q) = "" =>
                  /\ invalid <=> bf.out.err # ""
                  /\ ~invalid =>
                        /\ q.orgID # "" => f.OrgID = q.orgID /\ f.Org = Nil
                        /\ (q.orgID = "" /\ q.org # "") => f.Org = q.org
                        /\ q.user # "" => f.UserID = QueryID(q.user).id

\* C24: every label mapping of a stored notification endpoint, made from the
\* labels list of a POST or through POST /:id/labels, carries the
\* notification-endpoint resource type.
C24_MappingsCarryEndpointType ==
    \A m \in mappings :
        IsEndpoint(store[m.ResourceID]) =>
            m.ResourceType = NotificationEndpointResourceType

\* The functions restoreE calls, in the order of its text.
StepOrder(rebuildTSI) ==
    <<"moveBolt", "moveEngine", "restoreBolt", "restoreEngine">>
        \o (IF rebuildTSI THEN <<"rebuildTSI">> ELSE <<>>)
        \o <<"removeTmpBolt", "removeTmpEngine">>

\* C25: the steps a restore run has run are the first ones of move bolt,
\* move engine, restore bolt, restore engine, remove temporary bolt, remove
\* temporary engine (with the index rebuild after restore engine when it
\* is asked for), the step the run is at is the next of them, a run that
\* succeeded has run them all, and a run that failed returned the error of
\* the last step it ran, every step before it having succeeded; a run
\* without a backup path fails with "no backup path given" before any
\* step and with the files as they were.  A step that writes to the bolt
\* path finds nothing there, and a step that writes to the engine path
\* has moved what was there to the temporary path or finds the directory
\* a move has created.
C25_StepsInOrder ==
    [][ LET order == StepOrder(disk'.rebuildTSI)
            n == Len(disk'.steps)
        IN  /\ n <= Len(order) /\ disk'.steps = SubSeq(order, 1, n)
            /\ disk'.pc # "idle" => (n < Len(order) /\ disk'.pc = order[n + 1])
            /\ (disk'.pc = "idle" /\ disk'.ret = "ok") => n = Len(order)
            /\ (disk'.pc = "idle" /\ disk'.ret = "failed" /\ n > 0) =>
                   disk'.err = ErrorOf(disk'.steps[n])
            /\ disk.ret = "failed" => (disk.pc = "idle" /\ disk'.runs = disk.runs + 1)
            /\ ~disk.backup.path =>
                   /\ disk'.ret = "failed" /\ disk'.err = "no backup path given"
                   /\ n = 0
                   /\ <<disk'.bolt, disk'.boltTmp, disk'.engine, disk'.engineTmp>> =
                         <<disk.bolt, disk.boltTmp, disk.engine, disk.engineTmp>>
            /\ disk'.bolt \notin {disk.bolt, Absent} => disk.bolt = Absent
            /\ disk'.engine \notin {disk.engine, AbsentDir} =>
                   \/ disk'.engine = NewDir /\ disk'.engineTmp = disk.engine
                   \/ disk.engine = NewDir ]_vars

\* A run over an existing bolt file and engine directory moved both away
\* and failed in restoreBolt, the third step, with that step's error.
C25_Witness ==
    /\ disk.pc = "idle" /\ disk.ret = "failed" /\ disk.runs = 1
    /\ disk.hadBolt /\ disk.hadEngine
    /\ disk.steps = <<"moveBolt", "moveEngine", "restoreBolt">>
    /\ disk.err = "failed to restore bolt file"
    /\ disk.bolt = "partial" /\ disk.boltTmp = "orig"
    /\ disk.engine = NewDir /\ disk.engineTmp = OrigEngine

\* C26: a first restore run onto a target with no bolt file and no engine
\* directory, from a backup with a bolt file and TSM files, that has ended
\* without any of its system calls failing for a reason outside the files,
\* has succeeded and has left the data directory below the engine path
\* with files in it.
C26_FreshTargetRestores ==
    ( /\ disk.pc = "idle" /\ disk.runs = 1
      /\ ~disk.hadBolt /\ ~disk.hadEngine
      /\ disk.backup.path /\ disk.backup.bolt /\ disk.backup.tsm # <<>>
      /\ disk.sys = "ok" ) =>
        /\ disk.ret = "ok"
        /\ disk.engine.hasData
        /\ DOMAIN disk.engine.files # {}

\* C27: when a restore run has removed a temporary copy in its cleanup, or
\* has returned success, every step it ran has succeeded: the bolt file
\* and the engine data are restored and, when rebuild-index is true, the
\* index and series file rebuild has succeeded.
C27_SuccessOnlyAfterEveryStep ==
    ( \/ "removeTmpBolt" \in Range(disk.steps)
      \/ disk.pc = "idle" /\ disk.ret = "ok" ) =>
        /\ disk.restored
        /\ disk.rebuildTSI => disk.rebuild = "ok"

\* The tables of the iterator r, result after result.
AllTables(r) == {<<i, j>> \in (1 .. MaxResults) \X (1 .. MaxTables) :
                    i <= Len(r) /\ j <= Len(r[i])}

\* The tables of r up to and including the first with an error.
UpToFirstError(r) ==
    {t \in AllTables(r) :
        \A u \in AllTables(r) :
            (u[1] < t[1] \/ (u[1] = t[1] /\ u[2] < t[2])) => r[u[1]][u[2]].err = ""}

\* C28: when Encode of the null dialect has returned, it has released the
\* result iterator once and every column reader it received; when no table
\* returned an error it has consumed every result and every table, has
\* handed exactly the bytes "null" to one Write, after the last table, and
\* returns the count and error of that Write; when a table returned an
\* error it has consumed the tables up to that one and no result after it,
\* has written nothing, and returns that table's error with the count 0.
C28_NullEncode ==
    bf.out.done =>
        LET r == bf.results
            o == bf.out
            bad == {t \in UpToFirstError(r) : r[t[1]][t[2]].err # ""}
        IN  /\ o.iterReleased = 1
            /\ o.released = o.received
            /\ o.tables = Cardinality(UpToFirstError(r))
            /\ bad = {} =>
                   /\ o.results = Len(r)
                   /\ o.tables = Cardinality(AllTables(r))
                   /\ o.writes = <<"null">>
                   /\ o.n = bf.w.n /\ o.err = bf.w.err
            /\ \A t \in bad :
                   /\ o.err = r[t[1]][t[2]].err
                   /\ o.n = 0 /\ o.writes = <<>>
                   /\ o.results = t[1]

\* Encode has returned the error of the second table of the first of two
\* results, after releasing the column readers of both tables.
C28_Witness ==
    /\ bf.out.done
    /\ Len(bf.results) = 2 /\ Len(bf.results[1]) = 2 /\ Len(bf.results[2]) = 1
    /\ bf.results[1][1].err = "" /\ bf.results[1][2].err = "e1"
    /\ bf.out.err = "e1" /\ bf.out.n = 0 /\ bf.out.writes = <<>>
    /\ bf.out.released = bf.results[1][1].crs + 1
    /\ bf.out.results = 1 /\ bf.out.iterReleased = 1
    /\ bf.w.n = 4

\* C29: the first action a getTemplates thunk dispatches sets the templates
\* status to Loading, before the API call; when the thunk has ended, the
\* API call having returned or failed, the templates status is not Loading
\* any more, and after a call that returned it is Done with the fetched
\* items in the store.
C29_TemplatesLeaveLoading ==
    ui.act = "getTemplates" =>
        /\ ui.log # <<>> /\ ui.log[1] = setTemplatesStatus(Loading)
        /\ ui.pc = "idle" => ui.status # Loading
        /\ (ui.pc = "idle" /\ ~ui.threw) =>
              /\ ui.status = Done
              /\ Len(ui.log) = 2 /\ ui.log[2].type = "POPULATE_TEMPLATE_SUMMARIES"
              /\ ui.items = ui.log[2].items

\* The template actions that catch an API failure, and their failure
\* notifications.
FailureOf(act) ==
    CASE act = "createTemplate" -> "importTemplateFailed"
      [] act = "createTemplateFromResource" -> "saveResourceAsTemplateFailed"
      [] act = "updateTemplate" -> "updateTemplateFailed"
      [] act = "deleteTemplate" -> "deleteTemplateFailed"
      [] act = "cloneTemplate" -> "cloneTemplateFailed"
      [] act = "addTemplateLabelsAsync" -> "addTemplateLabelFailed"
      [] act = "removeTemplateLabelsAsync" -> "removeTemplateLabelFailed"
      [] act = "convertToTemplate" -> "createTemplateFailed"
      [] OTHER -> ""

\* The actions that add, set or remove a template summary.
SummaryChanges ==
    {"ADD_TEMPLATE_SUMMARY", "SET_TEMPLATE_SUMMARY", "REMOVE_TEMPLATE_SUMMARY"}

\* C30: a template action that catches API failures and whose API call
\* failed has, when it has ended, dispatched its failure notification
\* wrapped in notify, and has dispatched no action that adds, sets or
\* removes a template summary; such an action is dispatched only by a
\* thunk that has ended with all its API calls succeeded.
C30_FailureNotifiedNoSuccessChange ==
    FailureOf(ui.act) # "" =>
        /\ (ui.threw /\ ui.pc = "idle") =>
              \E i \in DOMAIN ui.log : ui.log[i] = notify(FailureOf(ui.act))
        /\ \A i \in DOMAIN ui.log :
              ui.log[i].type \in SummaryChanges => (~ui.threw /\ ui.pc = "idle")

============================================================================
